---- MODULE Spec2Model ----
(***************************************************************************)
(* A model of the SQL access-control and validation core of analytique:    *)
(* the SQL safety validator (packages/agent/src/validation.ts), the agent  *)
(* tools (packages/agent/src/tools.ts, here src/unnamed/part_007), the     *)
(* streaming turn loop (packages/agent/src/analyst.ts) and the chat route  *)
(* (apps/web/src/app/api/chat/route.ts, here src/unnamed/part_004).        *)
(*                                                                         *)
(* SQL texts and identifiers are TLA+ strings; TLC evaluates Len, SubSeq   *)
(* and \o on strings, so the regular expressions of the source are         *)
(* modelled character by character.                                        *)
(***************************************************************************)
EXTENDS Integers, Sequences, FiniteSets, TLC

(***************************************************************************)
(* Characters and JavaScript string primitives                             *)
(***************************************************************************)
LowerLetters == "abcdefghijklmnopqrstuvwxyz"
UpperLetters == "ABCDEFGHIJKLMNOPQRSTUVWXYZ"
Digits == "0123456789"

\* the i-th character of s, as a one-character string
Ch(s, i) == SubSeq(s, i, i)

CharsOf(s) == {Ch(s, i) : i \in 1..Len(s)}

\* \s of a JavaScript regular expression, and what String.trim removes
WhiteSpace == {" ", "\t", "\n", "\r"}

\* \w of a JavaScript regular expression
WordChars == CharsOf(LowerLetters) \cup CharsOf(UpperLetters) \cup CharsOf(Digits) \cup {"_"}

\* [a-zA-Z_], the first character of an identifier
IdentStart == CharsOf(LowerLetters) \cup CharsOf(UpperLetters) \cup {"_"}

UpperOf ==
  [c \in CharsOf(LowerLetters) |->
     Ch(UpperLetters, CHOOSE i \in 1..26 : Ch(LowerLetters, i) = c)]

LowerOf ==
  [c \in CharsOf(UpperLetters) |->
     Ch(LowerLetters, CHOOSE i \in 1..26 : Ch(UpperLetters, i) = c)]

\* a character-wise map of s, by halves
RECURSIVE MapChars(_, _)
MapChars(s, f) ==
  IF Len(s) = 0 THEN ""
  ELSE IF Len(s) = 1 THEN (IF s \in DOMAIN f THEN f[s] ELSE s)
  ELSE LET h == Len(s) \div 2
       IN MapChars(SubSeq(s, 1, h), f) \o MapChars(SubSeq(s, h + 1, Len(s)), f)

toUpperCase(s) == MapChars(s, UpperOf)

toLowerCase(s) == MapChars(s, LowerOf)

\* String.trim: from the first to the last character that is no white space
trim(s) ==
  LET keep == {i \in 1..Len(s) : Ch(s, i) \notin WhiteSpace}
  IN IF keep = {} THEN ""
     ELSE SubSeq(s, CHOOSE i \in keep : \A j \in keep : i <= j,
                    CHOOSE i \in keep : \A j \in keep : j <= i)

\* whether sub stands in s at position i (1-based)
StandsAt(s, sub, i) ==
  /\ i >= 1
  /\ i + Len(sub) - 1 <= Len(s)
  /\ SubSeq(s, i, i + Len(sub) - 1) = sub

startsWith(s, sub) == StandsAt(s, sub, 1)

endsWith(s, sub) == StandsAt(s, sub, Len(s) - Len(sub) + 1)

includes(s, sub) == \E i \in 1..(Len(s) + 1) : StandsAt(s, sub, i)

\* String.indexOf, 0-based as in JavaScript, -1 when sub does not occur
indexOf(s, sub) ==
  IF includes(s, sub)
  THEN (CHOOSE i \in 1..(Len(s) + 1) :
          /\ StandsAt(s, sub, i)
          /\ \A j \in 1..(i - 1) : ~StandsAt(s, sub, j)) - 1
  ELSE -1

\* the first position >= i of s that holds no character of set cs
SkipWhile(s, i, cs) ==
  LET stops == {j \in i..(Len(s) + 1) : j = Len(s) + 1 \/ Ch(s, j) \notin cs}
  IN CHOOSE j \in stops : \A k \in stops : j <= k

\* String.replace(/c/g, by) for a one-character pattern c
replaceAll(s, c, by) == MapChars(s, [x \in {c} |-> by])

(***************************************************************************)
(* validation.ts: the SQL safety validator                                 *)
(***************************************************************************)
BLOCKED_KEYWORDS ==
  <<"INSERT", "UPDATE", "DELETE", "DROP", "CREATE", "ALTER", "TRUNCATE",
    "GRANT", "REVOKE", "EXECUTE", "EXEC", "CALL">>

WARNING_KEYWORDS == <<"TRUNCATE", "CASCADE", "FORCE">>

\* new RegExp(`(^|;\\s*)${keyword}\\b`, 'i').test(n), n already upper-cased
BlockedKeywordMatches(n, keyword) ==
  \E p \in 1..Len(n) :
    /\ StandsAt(n, keyword, p)
    /\ \/ p = 1
       \/ \E q \in 1..(p - 1) :
            /\ Ch(n, q) = ";"
            /\ \A r \in (q + 1)..(p - 1) : Ch(n, r) \in WhiteSpace
    /\ \/ p + Len(keyword) > Len(n)
       \/ Ch(n, p + Len(keyword)) \notin WordChars

\* the keyword the for-loop over BLOCKED_KEYWORDS returns on, "" when none
FirstBlockedKeyword(n) ==
  LET First(hits) == IF hits = {} THEN ""
                     ELSE BLOCKED_KEYWORDS[CHOOSE k \in hits : \A j \in hits : k <= j]
  IN First({k \in 1..Len(BLOCKED_KEYWORDS) :
              BlockedKeywordMatches(n, BLOCKED_KEYWORDS[k])})

Invalid(msg) == [valid |-> FALSE, error |-> msg, warnings |-> <<>>]

\* Array.prototype.filter: the elements of seq whose flag in keep is true
RECURSIVE filterRange(_, _, _, _)
filterRange(seq, keep, lo, hi) ==
  IF lo > hi THEN <<>>
  ELSE IF lo = hi THEN (IF keep[lo] THEN <<seq[lo]>> ELSE <<>>)
  ELSE filterRange(seq, keep, lo, (lo + hi) \div 2)
         \o filterRange(seq, keep, (lo + hi) \div 2 + 1, hi)

filter(seq, keep) == filterRange(seq, keep, 1, Len(seq))

\* validateSQL without the rule on several statements
validateSQLOneRuleLess(sql) ==
  LET Validate(normalizedSQL) ==
        IF FirstBlockedKeyword(normalizedSQL) # ""
        THEN Invalid("SQL contains blocked keyword: " \o FirstBlockedKeyword(normalizedSQL)
                       \o ". Only SELECT queries are allowed.")
        ELSE IF /\ ~startsWith(normalizedSQL, "SELECT")
                /\ ~startsWith(normalizedSQL, "WITH")
        THEN Invalid("Query must start with SELECT or WITH (CTE)")
        ELSE [valid |-> TRUE, error |-> "", warnings |-> <<>>]
  IN Validate(trim(toUpperCase(sql)))

validateSQL(sql) ==
  LET Validate(normalizedSQL) ==
        LET w1 == IF includes(normalizedSQL, "--") /\ indexOf(normalizedSQL, "--") > 0
                  THEN <<"SQL contains comment syntax which may indicate injection attempt">>
                  ELSE <<>>
            KwWarn(k) == includes(normalizedSQL, k)
            Warned(hit) ==
              [i \in 1..Len(hit) |->
                 "Query contains '" \o hit[i] \o "' which may indicate risky operation"]
            w2 == Warned(filter(WARNING_KEYWORDS,
                           [k \in 1..Len(WARNING_KEYWORDS) |-> KwWarn(WARNING_KEYWORDS[k])]))
            w3 == IF ~includes(normalizedSQL, "LIMIT") /\ ~includes(normalizedSQL, "TOP")
                  THEN <<"Query has no LIMIT clause. Consider adding one for large tables.">>
                  ELSE <<>>
            w4 == IF includes(normalizedSQL, "SELECT *")
                  THEN <<"Using SELECT * may return more data than needed">>
                  ELSE <<>>
            Unblocked(blocked) ==
              IF blocked # ""
              THEN Invalid("SQL contains blocked keyword: " \o blocked
                             \o ". Only SELECT queries are allowed.")
              ELSE IF /\ includes(normalizedSQL, ";")
                      /\ indexOf(normalizedSQL, ";") < Len(normalizedSQL) - 1
              THEN Invalid("Multiple SQL statements are not allowed")
              ELSE IF /\ ~startsWith(normalizedSQL, "SELECT")
                      /\ ~startsWith(normalizedSQL, "WITH")
              THEN Invalid("Query must start with SELECT or WITH (CTE)")
              ELSE [valid |-> TRUE, error |-> "", warnings |-> w1 \o w2 \o w3 \o w4]
        IN Unblocked(FirstBlockedKeyword(normalizedSQL))
  IN Validate(trim(toUpperCase(sql)))

RECURSIVE StripSemicolons(_)
StripSemicolons(sanitized) ==
  IF endsWith(sanitized, ";")
  THEN StripSemicolons(trim(SubSeq(sanitized, 1, Len(sanitized) - 1)))
  ELSE sanitized

\* sanitizeSQL with an if in place of the while
sanitizeSQLOnce(sql) ==
  IF endsWith(trim(sql), ";")
  THEN trim(SubSeq(trim(sql), 1, Len(trim(sql)) - 1))
  ELSE trim(sql)

sanitizeSQL(sql) == StripSemicolons(trim(sql))

addDefaultLimit(sql, limit) ==
  IF ~includes(toUpperCase(sql), "LIMIT")
  THEN sql \o " LIMIT " \o ToString(limit)
  ELSE sql

(***************************************************************************)
(* tools.ts: JavaScript values of a tool input, identifiers, literals      *)
(***************************************************************************)
\* a value of a tool input: its typeof and its String(value)
Str(s) == [t |-> "string", s |-> s]
Undefined == [t |-> "undefined", s |-> "undefined"]
Num42 == [t |-> "number", s |-> "42"]

\* JavaScript truthiness, for (toolInput.schema as string) || 'public'
Truthy(v) ==
  /\ v.t # "undefined"
  /\ ~(v.t = "string" /\ v.s = "")

escapeSQLString(value) ==
  replaceAll(replaceAll(value, "\\", "\\\\"), "'", "''")

isValidSQLIdentifier(value) ==
  /\ value.t = "string"
  /\ Len(value.s) # 0
  /\ Len(value.s) <= 128
  /\ Head(value.s) \in IdentStart
  /\ \A i \in 2..Len(value.s) : Ch(value.s, i) \in WordChars

\* the outcome of a call that may throw
Threw(msg) == [threw |-> TRUE, error |-> msg]
NoThrow == [threw |-> FALSE, error |-> ""]

validateSQLIdentifier(value, identifierType) ==
  IF ~isValidSQLIdentifier(value)
  THEN Threw("Invalid " \o identifierType \o ": \"" \o value.s \o "\". "
             \o "Identifiers must contain only letters, numbers, and underscores, "
             \o "and start with a letter or underscore.")
  ELSE NoThrow

(***************************************************************************)
(* tools.ts: the permission helpers of createSupabaseTools                 *)
(***************************************************************************)
MinOf(S) == CHOOSE k \in S : \A j \in S : k <= j

\* Array.find over permissions.tables, else the default access level
getTablePermission(permissions, tableName, schema) ==
  LET lowerTableName == toLowerCase(tableName)
      lowerSchema == toLowerCase(schema)
      hits == {i \in 1..Len(permissions.tables) :
                 /\ toLowerCase(permissions.tables[i].table) = lowerTableName
                 /\ toLowerCase(permissions.tables[i].schema) = lowerSchema}
  IN IF hits # {}
     THEN permissions.tables[MinOf(hits)]
     ELSE [table |-> tableName, schema |-> schema,
           accessLevel |-> permissions.defaultAccess, blockedColumns |-> <<>>]

canAccessTable(permissions, tableName, schema) ==
  getTablePermission(permissions, tableName, schema).accessLevel # "none"

\* [a-z_][a-z0-9_]* under the i flag, at position i of s: the position after
\* the identifier, 0 when none stands there
IdentEnd(s, i) ==
  IF i <= Len(s) /\ Ch(s, i) \in IdentStart
  THEN SkipWhile(s, i + 1, WordChars)
  ELSE 0

\* /\b<kw>\s+([a-z_][a-z0-9_]*(?:\.[a-z_][a-z0-9_]*)?)/gi tried at position p
\* of s: whether it matches there, where the match ends, and group 1
KeywordTableAt(s, kw, p) ==
  LET afterKw == p + Len(kw)
      Name(afterWs, e1) ==
        LET e2 == IF e1 # 0 /\ e1 <= Len(s) /\ Ch(s, e1) = "." THEN IdentEnd(s, e1 + 1) ELSE 0
            ok == /\ \/ p = 1
                     \/ Ch(s, p - 1) \notin WordChars
                  /\ p + Len(kw) - 1 <= Len(s)
                  /\ toLowerCase(SubSeq(s, p, p + Len(kw) - 1)) = kw
                  /\ afterWs > afterKw
                  /\ e1 # 0
            Match(isMatch, stop) ==
              [matched |-> isMatch,
               end |-> IF isMatch THEN stop ELSE 0,
               group |-> IF isMatch THEN SubSeq(s, afterWs, stop - 1) ELSE ""]
        IN Match(ok, IF e2 # 0 THEN e2 ELSE e1)
      Space(afterWs) == Name(afterWs, IdentEnd(s, afterWs))
  IN Space(SkipWhile(s, afterKw, WhiteSpace))

\* match[1].split('.').pop()
AfterLastDot(name) ==
  LET dots == {i \in 1..Len(name) : Ch(name, i) = "."}
  IN IF dots = {} THEN name
     ELSE SubSeq(name, (CHOOSE i \in dots : \A j \in dots : j <= i) + 1, Len(name))

\* the while ((match = regex.exec(sql)) !== null) loop from lastIndex p:
\* exec finds the leftmost match at or after p and moves lastIndex to its end
RECURSIVE ScanTables(_, _, _, _)
ScanTables(s, kw, p, tables) ==
  LET Push(tableName) ==
        IF tableName # "" /\ \A i \in 1..Len(tables) : tables[i] # tableName
        THEN Append(tables, tableName)
        ELSE tables
      Exec(m) == ScanTables(s, kw, m.end, Push(toLowerCase(AfterLastDot(m.group))))
      Leftmost(found) ==
        IF found = {} THEN tables ELSE Exec(KeywordTableAt(s, kw, MinOf(found)))
  IN Leftmost({q \in p..Len(s) : KeywordTableAt(s, kw, q).matched})

extractTablesFromSQL(sql) ==
  ScanTables(sql, "join", 1, ScanTables(sql, "from", 1, <<>>))

\* String.replace(/\s+/g, ' '), by halves: every run of white space becomes
\* one space; afterWs says whether white space stands before s
RECURSIVE CollapseFrom(_, _)
CollapseFrom(s, afterWs) ==
  IF Len(s) = 0 THEN ""
  ELSE IF Len(s) = 1
  THEN (IF s \notin WhiteSpace THEN s ELSE IF afterWs THEN "" ELSE " ")
  ELSE LET h == Len(s) \div 2
       IN CollapseFrom(SubSeq(s, 1, h), afterWs)
          \o CollapseFrom(SubSeq(s, h + 1, Len(s)), Ch(s, h) \in WhiteSpace)

CollapseWhiteSpace(s) == CollapseFrom(s, FALSE)

\* lib/table-permissions.ts extractTablesFromSQL, normalizedSQL: white space
\* collapsed, quotes removed, letters lower-cased
normalizedSQLLib(sql) ==
  toLowerCase(replaceAll(replaceAll(CollapseWhiteSpace(sql), "\"", ""), "'", ""))

\* lib/table-permissions.ts extractTablesFromSQL: the scans run on
\* normalizedSQL
extractTablesFromSQLLib(sql) ==
  LET Scan(normalizedSQL) ==
        ScanTables(normalizedSQL, "join", 1, ScanTables(normalizedSQL, "from", 1, <<>>))
  IN Scan(normalizedSQLLib(sql))

validateTableAccess(permissions, sql) ==
  LET Blocked(t) == ~canAccessTable(permissions, t, "public")
      Check(tables) == filter(tables, [k \in 1..Len(tables) |-> Blocked(tables[k])])
      Verdict(blockedTables) ==
        [allowed |-> Len(blockedTables) = 0, blockedTables |-> blockedTables]
  IN Verdict(Check(extractTablesFromSQL(sql)))

(***************************************************************************)
(* The backend behind supabase.rpc('execute_readonly_query'): the catalog  *)
(* it holds and the queries the model may ask for                          *)
(***************************************************************************)
\* information_schema of the backend, ordered by table_name within a schema
Catalog ==
  << [schema |-> "public", name |-> "orders",
      columns |-> <<"id", "user_id", "total">>,
      pk |-> <<"id">>,
      fk |-> <<[column_name |-> "user_id", foreign_table |-> "users",
                foreign_column |-> "id"]>>],
     [schema |-> "public", name |-> "users",
      columns |-> <<"id", "name", "email", "ssn">>,
      pk |-> <<"id">>,
      fk |-> <<>>],
     [schema |-> "private", name |-> "users",
      columns |-> <<"id", "salary">>,
      pk |-> <<"id">>,
      fk |-> <<>>] >>

\* the texts a model may pass as execute_sql's sql, each with the tables the
\* backend reads when it runs the text and the columns of the rows it returns
Queries ==
  { [sql |-> "SELECT * FROM users",
     reads |-> {<<"public", "users">>},
     columns |-> <<"id", "name", "email", "ssn">>],
    [sql |-> "SELECT id, total FROM orders",
     reads |-> {<<"public", "orders">>},
     columns |-> <<"id", "total">>],
    [sql |-> "select name from public.users;",
     reads |-> {<<"public", "users">>},
     columns |-> <<"name">>],
    [sql |-> "SELECT name FROM \"users\"",
     reads |-> {<<"public", "users">>},
     columns |-> <<"name">>],
    [sql |-> "SELECT o.id, u.email FROM orders o, users u",
     reads |-> {<<"public", "orders">>, <<"public", "users">>},
     columns |-> <<"id", "email">>],
    [sql |-> "SELECT o.id FROM orders o JOIN Users u ON o.user_id = u.id LIMIT 5",
     reads |-> {<<"public", "orders">>, <<"public", "users">>},
     columns |-> <<"id">>],
    [sql |-> "SELECT salary FROM private.users",
     reads |-> {<<"private", "users">>},
     columns |-> <<"salary">>],
    [sql |-> "SELECT 1",
     reads |-> {},
     columns |-> <<"?column?">>],
    [sql |-> "DELETE FROM users",
     reads |-> {},
     columns |-> <<>>],
    [sql |-> "SELECT 1; DROP TABLE users",
     reads |-> {},
     columns |-> <<>>],
    [sql |-> "SELECT id FROM users; SELECT id FROM orders",
     reads |-> {<<"public", "users">>, <<"public", "orders">>},
     columns |-> <<"id">>],
    [sql |-> "EXPLAIN SELECT * FROM users",
     reads |-> {<<"public", "users">>},
     columns |-> <<"QUERY PLAN">>] }

\* how the backend settles a round trip
BackendOutcomes == {"ok", "error", "hang"}

\* createSupabaseTools: config.maxRows ?? 1000 and config.queryTimeout ?? 30000,
\* the values the chat route passes
maxRows == 1000
queryTimeout == 30000

\* the rows the backend returns for the text of a user query, each row given
\* by its column names
UserQueryRows(sent) ==
  LET es == {e \in Queries : addDefaultLimit(sanitizeSQL(e.sql), maxRows) = sent}
  IN IF es = {} THEN <<>> ELSE << (CHOOSE e \in es : TRUE).columns >>

\* the catalog's tables of a schema
CatalogSchemaTables(schema) ==
  LET In(e) == e.schema = schema
  IN filter(Catalog, [k \in 1..Len(Catalog) |-> In(Catalog[k])])

CatalogEntries(schema, table) ==
  LET Is(e) == e.schema = schema /\ e.name = table
  IN filter(Catalog, [k \in 1..Len(Catalog) |-> Is(Catalog[k])])

\* the rows of a round trip that the backend answers
BackendRows(q) ==
  CASE q.kind = "tables" ->
         LET In(e) == e.schema = q.schema
             es == filter(Catalog, [k \in 1..Len(Catalog) |-> In(Catalog[k])])
         IN [i \in 1..Len(es) |-> [name |-> es[i].name, schema |-> es[i].schema]]
    [] q.kind = "columns" ->
         LET es == CatalogEntries(q.schema, q.table)
         IN IF es = <<>> THEN <<>> ELSE es[1].columns
    [] q.kind = "pk" ->
         LET es == CatalogEntries(q.schema, q.table)
         IN IF es = <<>> THEN <<>> ELSE es[1].pk
    [] q.kind = "fk" ->
         LET es == CatalogEntries(q.schema, q.table)
         IN IF es = <<>> THEN <<>> ELSE es[1].fk
    [] OTHER -> UserQueryRows(q.sql)

(***************************************************************************)
(* tools.ts: runQuery, listTables, getTableSchema, executeSQL              *)
(*                                                                         *)
(* A call ends in one of three ways: it returns a value, it throws, or it  *)
(* never settles because an awaited round trip never settles.  steps is    *)
(* what the call did, in order: the checks it ran and the texts it sent.   *)
(* script[i] is how the backend settles the i-th round trip of the call.   *)
(***************************************************************************)
Return(value, steps) ==
  [kind |-> "return", error |-> "", value |-> value, steps |-> steps]
Throw(error, steps) ==
  [kind |-> "throw", error |-> error, value |-> <<>>, steps |-> steps]
Hang(steps) ==
  [kind |-> "hang", error |-> "", value |-> <<>>, steps |-> steps]

Step(op, sql) == [op |-> op, sql |-> sql]

\* the error runQuery throws when the backend reports one
QueryFailed == "Query failed: backend error"

ListTablesSQL(schema) ==
  "SELECT table_name as name, table_schema as schema FROM information_schema.tables "
  \o "WHERE table_schema = '" \o schema \o "' AND table_type = 'BASE TABLE' "
  \o "ORDER BY table_name"

ColumnsSQL(table, schema) ==
  "SELECT c.column_name as name, c.data_type as type, (c.is_nullable = 'YES') as nullable, "
  \o "c.column_default as default_value FROM information_schema.columns c "
  \o "WHERE c.table_name = '" \o table \o "' AND c.table_schema = '" \o schema
  \o "' ORDER BY c.ordinal_position"

PkSQL(table, schema) ==
  "SELECT ccu.column_name FROM information_schema.table_constraints tc "
  \o "JOIN information_schema.constraint_column_usage ccu "
  \o "ON tc.constraint_name = ccu.constraint_name "
  \o "WHERE tc.table_name = '" \o table \o "' AND tc.table_schema = '" \o schema
  \o "' AND tc.constraint_type = 'PRIMARY KEY'"

FkSQL(table, schema) ==
  "SELECT kcu.column_name, ccu.table_name AS foreign_table, "
  \o "ccu.column_name AS foreign_column FROM information_schema.table_constraints AS tc "
  \o "JOIN information_schema.key_column_usage AS kcu "
  \o "ON tc.constraint_name = kcu.constraint_name "
  \o "JOIN information_schema.constraint_column_usage AS ccu "
  \o "ON ccu.constraint_name = tc.constraint_name "
  \o "WHERE tc.constraint_type = 'FOREIGN KEY' AND tc.table_name = '" \o table
  \o "' AND tc.table_schema = '" \o schema \o "'"

\* a round trip: the text sent, and for a catalog text the names spliced in
Query(kind, sql, schema, table) ==
  [kind |-> kind, sql |-> sql, schema |-> schema, table |-> table]

SeqContains(seq, v) == \E i \in 1..Len(seq) : seq[i] = v

\* listTables without the permission filter: every table of the schema
listTablesUnfiltered(permissions, schema, script) ==
  LET safeSchema == validateSQLIdentifier(schema, "schema name")
      Rows(tables) ==
        [i \in 1..Len(tables) |->
           [name |-> tables[i].name, schema |-> tables[i].schema, columns |-> <<>>]]
      Run(q, sent) ==
        IF script[1] = "hang" THEN Hang(sent)
        ELSE IF script[1] = "error" THEN Return(<<>>, sent)
        ELSE Return(Rows(BackendRows(q)), sent)
      In(safe) == Run(Query("tables", ListTablesSQL(safe), safe, ""),
                      <<Step("runQuery", ListTablesSQL(safe))>>)
  IN IF safeSchema.threw THEN Throw(safeSchema.error, <<>>)
     ELSE In(escapeSQLString(schema.s))

listTables(permissions, schema, script) ==
  LET safeSchema == validateSQLIdentifier(schema, "schema name")
      Accessible(t) == canAccessTable(permissions, t.name, t.schema)
      Filtered(tables) == filter(tables, [k \in 1..Len(tables) |-> Accessible(tables[k])])
      Rows(accessibleTables) ==
        [i \in 1..Len(accessibleTables) |->
           [name |-> accessibleTables[i].name,
            schema |-> accessibleTables[i].schema,
            columns |-> <<>>]]
      Run(q, sent) ==
        IF script[1] = "hang" THEN Hang(sent)
        ELSE IF script[1] = "error" THEN Return(<<>>, sent)
        ELSE Return(Rows(Filtered(BackendRows(q))), sent)
      In(safe) == Run(Query("tables", ListTablesSQL(safe), safe, ""),
                      <<Step("runQuery", ListTablesSQL(safe))>>)
  IN IF safeSchema.threw THEN Throw(safeSchema.error, <<>>)
     ELSE In(escapeSQLString(schema.s))

AccessDeniedTable(table) ==
  "ACCESS_DENIED: You don't have permission to access the table '" \o table \o "'. "
  \o "This table has been restricted in Security Settings. "
  \o "To access this data, please go to Security Settings to update table permissions, "
  \o "or contact your administrator to request access."

\* columnsData.filter(...).map(...) of getTableSchema
SchemaColumns(permissions, table, schema, columnsData, pkData, fkData) ==
  LET Kept(blockedColumns, col) == ~SeqContains(blockedColumns, col)
      Visible(blockedColumns) ==
        filter(columnsData,
               [k \in 1..Len(columnsData) |-> Kept(blockedColumns, columnsData[k])])
      Columns(kept) ==
        [i \in 1..Len(kept) |->
           [name |-> kept[i],
            isPrimaryKey |-> SeqContains(pkData, kept[i]),
            isForeignKey |-> \E j \in 1..Len(fkData) : fkData[j].column_name = kept[i]]]
  IN Columns(Visible(getTablePermission(permissions, table, schema).blockedColumns))

\* getTableSchema with the access check moved behind the columns query
getTableSchemaQueryFirst(permissions, tableName, schema, script) ==
  LET safeTableName == validateSQLIdentifier(tableName, "table name")
      safeSchema == validateSQLIdentifier(schema, "schema name")
      Fetch(escapedTableName, escapedSchema) ==
        LET qc == Query("columns", ColumnsSQL(escapedTableName, escapedSchema),
                        escapedSchema, escapedTableName)
            s1 == <<Step("runQuery", qc.sql), Step("canAccessTable", "")>>
        IN IF script[1] = "hang" THEN Hang(<<s1[1]>>)
           ELSE IF script[1] = "error" THEN Throw(QueryFailed, <<s1[1]>>)
           ELSE IF ~canAccessTable(permissions, tableName.s, schema.s)
           THEN Throw(AccessDeniedTable(tableName.s), s1)
           ELSE Return([name |-> tableName.s, schema |-> schema.s,
                        columns |-> SchemaColumns(permissions, tableName.s, schema.s,
                                      BackendRows(qc), <<>>, <<>>)],
                       s1)
  IN IF safeTableName.threw THEN Throw(safeTableName.error, <<>>)
     ELSE IF safeSchema.threw THEN Throw(safeSchema.error, <<>>)
     ELSE Fetch(escapeSQLString(tableName.s), escapeSQLString(schema.s))

getTableSchema(permissions, tableName, schema, script) ==
  LET safeTableName == validateSQLIdentifier(tableName, "table name")
      safeSchema == validateSQLIdentifier(schema, "schema name")
      Fetch(escapedTableName, escapedSchema) ==
        LET qc == Query("columns", ColumnsSQL(escapedTableName, escapedSchema),
                        escapedSchema, escapedTableName)
            qp == Query("pk", PkSQL(escapedTableName, escapedSchema),
                        escapedSchema, escapedTableName)
            qf == Query("fk", FkSQL(escapedTableName, escapedSchema),
                        escapedSchema, escapedTableName)
            Third(s3) ==
              IF script[3] = "hang" THEN Hang(s3)
              ELSE IF script[3] = "error" THEN Throw(QueryFailed, s3)
              ELSE Return([name |-> tableName.s, schema |-> schema.s,
                           columns |-> SchemaColumns(permissions, tableName.s, schema.s,
                                         BackendRows(qc), BackendRows(qp), BackendRows(qf))],
                          s3)
            Second(s2) ==
              IF script[2] = "hang" THEN Hang(s2)
              ELSE IF script[2] = "error" THEN Throw(QueryFailed, s2)
              ELSE Third(Append(s2, Step("runQuery", qf.sql)))
            First(s1) ==
              IF script[1] = "hang" THEN Hang(s1)
              ELSE IF script[1] = "error" THEN Throw(QueryFailed, s1)
              ELSE Second(Append(s1, Step("runQuery", qp.sql)))
        IN First(<<Step("canAccessTable", ""), Step("runQuery", qc.sql)>>)
  IN IF safeTableName.threw THEN Throw(safeTableName.error, <<>>)
     ELSE IF safeSchema.threw THEN Throw(safeSchema.error, <<>>)
     ELSE IF ~canAccessTable(permissions, tableName.s, schema.s)
     THEN Throw(AccessDeniedTable(tableName.s), <<Step("canAccessTable", "")>>)
     ELSE Fetch(escapeSQLString(tableName.s), escapeSQLString(schema.s))

RECURSIVE JoinComma(_)
JoinComma(seq) ==
  IF seq = <<>> THEN ""
  ELSE IF Len(seq) = 1 THEN seq[1]
  ELSE seq[1] \o ", " \o JoinComma(Tail(seq))

AccessDeniedQuery(blockedTables) ==
  "ACCESS_DENIED: You don't have permission to query the following table(s): "
  \o JoinComma(blockedTables) \o ". "
  \o "These tables have been restricted in Security Settings. "
  \o "To access this data, please go to Security Settings to update table permissions, "
  \o "or contact your administrator to request access."

\* the TypeError of sql.toUpperCase() on a value that is no string
NotAStringError(sql) ==
  IF sql.t = "undefined"
  THEN "Cannot read properties of undefined (reading 'toUpperCase')"
  ELSE "sql.toUpperCase is not a function"

\* executeSQL with the table-access check run before validateSQL
executeSQLAccessFirst(permissions, sql, script) ==
  LET a == <<Step("validateTableAccess", sql.s)>>
      v == Append(a, Step("validateSQL", sql.s))
      Rows(data, r) ==
        Return([data |-> data, rowCount |-> Len(data),
                columns |-> IF Len(data) > 0 THEN data[1] ELSE <<>>],
               r)
      Run(limitedSQL, r) ==
        IF script[1] = "hang"
        THEN Throw("Query timeout after " \o ToString(queryTimeout) \o "ms", r)
        ELSE IF script[1] = "error" THEN Throw(QueryFailed, r)
        ELSE Rows(BackendRows(Query("user", limitedSQL, "", "")), r)
      Limited(limitedSQL) == Run(limitedSQL, Append(v, Step("runQuery", limitedSQL)))
      Validated(validation) ==
        IF ~validation.valid
        THEN Throw("SQL validation failed: " \o validation.error, v)
        ELSE Limited(addDefaultLimit(sanitizeSQL(sql.s), maxRows))
      Access(accessValidation) ==
        IF ~accessValidation.allowed
        THEN Throw(AccessDeniedQuery(accessValidation.blockedTables), a)
        ELSE Validated(validateSQL(sql.s))
  IN IF sql.t # "string" THEN Throw(NotAStringError(sql), a)
     ELSE Access(validateTableAccess(permissions, sql.s))

executeSQL(permissions, sql, script) ==
  LET v == <<Step("validateSQL", sql.s)>>
      a == Append(v, Step("validateTableAccess", sql.s))
      Rows(data, r) ==
        Return([data |-> data, rowCount |-> Len(data),
                columns |-> IF Len(data) > 0 THEN data[1] ELSE <<>>],
               r)
      Run(limitedSQL, r) ==
        IF script[1] = "hang"
        THEN Throw("Query timeout after " \o ToString(queryTimeout) \o "ms", r)
        ELSE IF script[1] = "error" THEN Throw(QueryFailed, r)
        ELSE Rows(BackendRows(Query("user", limitedSQL, "", "")), r)
      Limited(limitedSQL) == Run(limitedSQL, Append(a, Step("runQuery", limitedSQL)))
      Access(accessValidation) ==
        IF ~accessValidation.allowed
        THEN Throw(AccessDeniedQuery(accessValidation.blockedTables), a)
        ELSE Limited(addDefaultLimit(sanitizeSQL(sql.s), maxRows))
      Validated(validation) ==
        IF ~validation.valid
        THEN Throw("SQL validation failed: " \o validation.error, v)
        ELSE Access(validateTableAccess(permissions, sql.s))
  IN IF sql.t # "string" THEN Throw(NotAStringError(sql), <<Step("validateSQL", "")>>)
     ELSE Validated(validateSQL(sql.s))

(***************************************************************************)
(* tools.ts: handleToolCall, the dispatch boundary                         *)
(***************************************************************************)
\* the JSON envelope a tool call returns; payload says which of tables, table
\* and result the envelope carries
NoTable == [name |-> "", schema |-> "", columns |-> <<>>]
NoResult == [data |-> <<>>, rowCount |-> 0, columns |-> <<>>]

Envelope(success, error, payload, tables, table, result) ==
  [success |-> success, error |-> error, payload |-> payload,
   tables |-> tables, table |-> table, result |-> result]

ErrorEnvelope(error) == Envelope(FALSE, error, "error", <<>>, NoTable, NoResult)

\* the switch of handleToolCall: what each case does, an exception still
\* in flight
Dispatch(permissions, toolName, toolInput, script) ==
  LET schema == IF Truthy(toolInput.schema) THEN toolInput.schema ELSE Str("public")
      Tables(o) ==
        IF o.kind # "return" THEN o
        ELSE Return(Envelope(TRUE, "", "tables",
                      [i \in 1..Len(o.value) |->
                         [name |-> o.value[i].name,
                          columnCount |-> Len(o.value[i].columns)]],
                      NoTable, NoResult),
                    o.steps)
      Table(o) ==
        IF o.kind # "return" THEN o
        ELSE Return(Envelope(TRUE, "", "table", <<>>, o.value, NoResult), o.steps)
      Result(o) ==
        IF o.kind # "return" THEN o
        ELSE Return(Envelope(TRUE, "", "result", <<>>, NoTable, o.value), o.steps)
  IN CASE toolName = "list_tables" ->
            Tables(listTables(permissions, schema, script))
       [] toolName = "get_table_schema" ->
            Table(getTableSchema(permissions, toolInput.table_name, schema, script))
       [] toolName = "execute_sql" ->
            Result(executeSQL(permissions, toolInput.sql, script))
       [] OTHER ->
            Return(ErrorEnvelope("Unknown tool: " \o toolName), <<>>)

\* handleToolCall without its try/catch
handleToolCallNoCatch(permissions, toolName, toolInput, script) ==
  Dispatch(permissions, toolName, toolInput, script)

\* try { switch ... } catch (error) { return {success: false, error: message} }
handleToolCall(permissions, toolName, toolInput, script) ==
  LET Caught(o) == IF o.kind = "throw"
                   THEN Return(ErrorEnvelope(o.error), o.steps)
                   ELSE o
  IN Caught(Dispatch(permissions, toolName, toolInput, script))

(***************************************************************************)
(* The operator's saved configuration and its way to the agent             *)
(***************************************************************************)
\* a TablePermission of the web library (lib/table-permissions.ts); a list
\* that is not set is the empty list
Perm(table, schema, accessLevel, blockedColumns, allowedColumns) ==
  [table |-> table, schema |-> schema, accessLevel |-> accessLevel,
   blockedColumns |-> blockedColumns, allowedColumns |-> allowedColumns]

\* the configurations the operator may have saved in the settings page
SavedConfigs ==
  { [defaultAccess |-> "read",
     tables |-> <<Perm("users", "public", "none", <<>>, <<>>)>>],
    [defaultAccess |-> "none",
     tables |-> <<Perm("orders", "public", "read", <<>>, <<>>)>>],
    [defaultAccess |-> "read",
     tables |-> <<Perm("users", "public", "read", <<"ssn">>, <<>>),
                  Perm("orders", "public", "read", <<>>, <<"id", "total">>)>>],
    [defaultAccess |-> "read",
     tables |-> <<Perm("Users", "PUBLIC", "none", <<>>, <<>>)>>],
    [defaultAccess |-> "read",
     tables |-> <<Perm("users", "private", "none", <<>>, <<>>)>>],
    [defaultAccess |-> "full",
     tables |-> <<Perm("users", "public", "full", <<"ssn">>, <<"name", "ssn">>),
                  Perm("USERS", "public", "none", <<>>, <<>>)>>],
    [defaultAccess |-> "read",
     tables |-> <<Perm("user data", "public", "none", <<>>, <<>>)>>] }

\* table-permissions.ts DEFAULT_CONFIG: what loadTablePermissions returns when
\* nothing is stored
DEFAULT_CONFIG == [defaultAccess |-> "read", tables |-> <<>>]

\* lib/table-permissions.ts getTableAccess: the entry of a saved configuration
\* for a table, else the default access level
getTableAccess(config, tableName, schemaName) ==
  LET hits == {i \in 1..Len(config.tables) :
                 /\ config.tables[i].table = tableName
                 /\ config.tables[i].schema = schemaName}
  IN IF hits # {}
     THEN config.tables[MinOf(hits)]
     ELSE Perm(tableName, schemaName, config.defaultAccess, <<>>, <<>>)

\* canAccessColumn with the allow-list consulted before the block-list
canAccessColumnAllowFirst(config, tableName, columnName, schemaName) ==
  LET permission == getTableAccess(config, tableName, schemaName)
  IN IF permission.accessLevel = "none" THEN FALSE
     ELSE IF Len(permission.allowedColumns) > 0
     THEN SeqContains(permission.allowedColumns, columnName)
     ELSE ~SeqContains(permission.blockedColumns, columnName)

\* lib/table-permissions.ts canAccessColumn
canAccessColumn(config, tableName, columnName, schemaName) ==
  LET permission == getTableAccess(config, tableName, schemaName)
  IN IF permission.accessLevel = "none" THEN FALSE
     ELSE IF SeqContains(permission.blockedColumns, columnName) THEN FALSE
     ELSE IF Len(permission.allowedColumns) > 0
     THEN SeqContains(permission.allowedColumns, columnName)
     ELSE TRUE

\* ChatPanel: the permissions object of the body of POST /api/chat
ChatPanelPermissions(config) ==
  [defaultAccess |-> config.defaultAccess,
   tables |-> [i \in 1..Len(config.tables) |->
                 [table |-> config.tables[i].table,
                  schema |-> config.tables[i].schema,
                  accessLevel |-> config.tables[i].accessLevel,
                  blockedColumns |-> config.tables[i].blockedColumns]]]

\* z.array(TablePermissionSchema).max(1000)
MaxTables == 1000

\* TablePermissionsConfigSchema.safeParse(...).success
PermissionsSchemaAccepts(body) ==
  /\ body.defaultAccess \in {"full", "read", "none"}
  /\ Len(body.tables) <= MaxTables
  /\ \A i \in 1..Len(body.tables) :
       /\ isValidSQLIdentifier(Str(body.tables[i].table))
       /\ isValidSQLIdentifier(Str(body.tables[i].schema))
       /\ body.tables[i].accessLevel \in {"full", "read", "none"}
       /\ \A j \in 1..Len(body.tables[i].blockedColumns) :
            isValidSQLIdentifier(Str(body.tables[i].blockedColumns[j]))

\* parseResult.data.permissions: z.object keeps the declared keys only
ParsedPermissions(body) ==
  [defaultAccess |-> body.defaultAccess,
   tables |-> [i \in 1..Len(body.tables) |->
                 [table |-> body.tables[i].table,
                  schema |-> body.tables[i].schema,
                  accessLevel |-> body.tables[i].accessLevel,
                  blockedColumns |-> body.tables[i].blockedColumns]]]

\* createSupabaseTools: config.permissions ?? {defaultAccess: 'read', tables: []}
DefaultPermissions == [defaultAccess |-> "read", tables |-> <<>>]

(***************************************************************************)
(* What the model collaborator may ask for                                 *)
(***************************************************************************)
ToolInput(schema, table_name, sql) ==
  [schema |-> schema, table_name |-> table_name, sql |-> sql]

ToolCalls ==
  { [name |-> "list_tables", input |-> ToolInput(sc, Undefined, Undefined)] :
      sc \in {Undefined, Str("private"), Str("public' OR '1'='1")} }
  \cup
  { [name |-> "get_table_schema", input |-> ToolInput(Undefined, t, Undefined)] :
      t \in {Str("users"), Str("orders"), Str("USERS"), Str("users; --"), Undefined} }
  \cup
  { [name |-> "get_table_schema", input |-> ToolInput(sc, Str("users"), Undefined)] :
      sc \in {Str("private"), Num42} }
  \cup
  { [name |-> "execute_sql", input |-> ToolInput(Undefined, Undefined, q)] :
      q \in {Str(e.sql) : e \in Queries} \cup {Undefined, Num42} }
  \cup
  { [name |-> "drop_table", input |-> ToolInput(Undefined, Str("users"), Undefined)] }

\* how the backend settles the first, second and third round trip of a call
Scripts ==
  { <<"ok", "ok", "ok">>, <<"error", "ok", "ok">>, <<"hang", "ok", "ok">>,
    <<"ok", "error", "ok">>, <<"ok", "ok", "hang">> }

\* the configurations an analyst may be constructed with
AgentConfigs ==
  {ChatPanelPermissions(c) : c \in SavedConfigs} \cup {DefaultPermissions}

\* handleToolCall for each configuration, tool_use block and backend script
ToolOutcomes ==
  [c \in AgentConfigs, call \in ToolCalls, script \in Scripts |->
     handleToolCall(c, call.name, call.input, script)]

\* handleToolCall's switch for the same arguments, before the catch
DispatchOutcomes ==
  [c \in AgentConfigs, call \in ToolCalls, script \in Scripts |->
     Dispatch(c, call.name, call.input, script)]

\* the most tool_use blocks of one model response
MaxToolUse == 2

\* the largest maxIterations a library caller configures
MaxCfgIterations == 2

StopReasons == {"end_turn", "tool_use"}

(***************************************************************************)
(* analyst.ts: what chatStream reads out of the text of a model response   *)
(***************************************************************************)
\* the values JSON.parse gives: an object by its keys (Undefined for a key it
\* does not have), an array, null, or the SyntaxError it throws
Arr(items) == [t |-> "array", items |-> items]
Obj(keyAnswer, metrics, tables, message, type) ==
  [t |-> "object", keyAnswer |-> keyAnswer, metrics |-> metrics, tables |-> tables,
   message |-> message, suggestion |-> Undefined, chartType |-> Undefined, type |-> type]
JSONNull == [t |-> "null"]
SyntaxError == [t |-> "SyntaxError"]

\* the JSON texts the model may write into a fenced block, and their values
JSONTexts ==
  [x \in {"{\"keyAnswer\":\"42 orders\",\"metrics\":[]}",
          "{\"metrics\":[]}",
          "{\"keyAnswer\":\"\",\"metrics\":[]}",
          "{\"tables\":[\"users\"],\"message\":\"Access to users is restricted.\"}",
          "{\"tables\":[\"users\"]}",
          "{\"type\":\"bar\"}",
          "null"} |->
     CASE x = "{\"keyAnswer\":\"42 orders\",\"metrics\":[]}" ->
            Obj(Str("42 orders"), Arr(<<>>), Undefined, Undefined, Undefined)
       [] x = "{\"metrics\":[]}" ->
            Obj(Undefined, Arr(<<>>), Undefined, Undefined, Undefined)
       [] x = "{\"keyAnswer\":\"\",\"metrics\":[]}" ->
            Obj(Str(""), Arr(<<>>), Undefined, Undefined, Undefined)
       [] x = "{\"tables\":[\"users\"],\"message\":\"Access to users is restricted.\"}" ->
            Obj(Undefined, Undefined, Arr(<<Str("users")>>),
                Str("Access to users is restricted."), Undefined)
       [] x = "{\"tables\":[\"users\"]}" ->
            Obj(Undefined, Undefined, Arr(<<Str("users")>>), Undefined, Undefined)
       [] x = "{\"type\":\"bar\"}" ->
            Obj(Undefined, Undefined, Undefined, Undefined, Str("bar"))
       [] OTHER -> JSONNull]

\* JSON.parse: white space around the value is skipped; every other text
\* here is no JSON
JSONParse(body) ==
  IF trim(body) \in DOMAIN JSONTexts THEN JSONTexts[trim(body)] ELSE SyntaxError

\* the three grave accents of a markdown fence; a string of this module
\* cannot hold a grave accent, so the texts here write a fence as ~~~
Fence == "~~~"

\* text.match of the pattern fence, kind, newline, lazy group, fence: the
\* group of the match, from the first opening fence of the kind to the first
\* closing fence after it
NoMatch == [matched |-> FALSE, body |-> ""]
FencedBlock(text, kind) ==
  LET open == Fence \o kind \o "\n"
      Closed(from) ==
        LET rest == SubSeq(text, from, Len(text))
        IN IF includes(rest, Fence)
           THEN [matched |-> TRUE, body |-> SubSeq(rest, 1, indexOf(rest, Fence))]
           ELSE NoMatch
  IN IF includes(text, open)
     THEN Closed(indexOf(text, open) + 1 + Len(open))
     ELSE NoMatch

\* a field of the result of parseResponse that was not assigned
Unset == [set |-> FALSE]
Set(value) == [set |-> TRUE, value |-> value]

\* try { const parsed = JSON.parse(body); if (test(parsed)) result.x = ... }
\* catch {}: a SyntaxError, or the TypeError of a property read of null,
\* leaves the field unset
TryParse(block, Test(_), Make(_)) ==
  LET Tried(parsed) ==
        IF parsed.t \in {"SyntaxError", "null"} THEN Unset
        ELSE IF Test(parsed) THEN Set(Make(parsed))
        ELSE Unset
  IN IF block.matched THEN Tried(JSONParse(block.body)) ELSE Unset

\* DataAnalyst.parseResponse
parseResponse(text) ==
  LET Sql(block) == IF block.matched THEN Set(trim(block.body)) ELSE Unset
      InsightsTest(parsed) == Truthy(parsed.keyAnswer) /\ parsed.metrics.t = "array"
      InsightsOf(parsed) == [keyAnswer |-> parsed.keyAnswer, metrics |-> parsed.metrics]
      DeniedTest(parsed) == Truthy(parsed.tables) /\ Truthy(parsed.message)
      DeniedOf(parsed) ==
        [tables |-> parsed.tables, message |-> parsed.message,
         suggestion |-> IF Truthy(parsed.suggestion) THEN parsed.suggestion
                        ELSE Str("Please update your permissions in Security Settings.")]
      ChartTest(parsed) == Truthy(parsed.chartType) \/ Truthy(parsed.type)
      ChartOf(parsed) ==
        [type |-> IF Truthy(parsed.chartType) THEN parsed.chartType ELSE parsed.type]
  IN [sql |-> Sql(FencedBlock(text, "sql")),
      insights |-> TryParse(FencedBlock(text, "insights"), InsightsTest, InsightsOf),
      permissionDenied |->
        TryParse(FencedBlock(text, "permission_denied"), DeniedTest, DeniedOf),
      chartSuggestion |-> TryParse(FencedBlock(text, "json"), ChartTest, ChartOf)]

\* the typed events chatStream yields from the parsed text, in order
TypedEvents(text) ==
  LET Yielded(parsed) ==
        (IF parsed.insights.set
         THEN <<[type |-> "insights", data |-> parsed.insights.value]>> ELSE <<>>)
        \o (IF parsed.chartSuggestion.set
            THEN <<[type |-> "chart", data |-> parsed.chartSuggestion.value]>> ELSE <<>>)
        \o (IF parsed.permissionDenied.set
            THEN <<[type |-> "permission_denied", data |-> parsed.permissionDenied.value]>>
            ELSE <<>>)
  IN Yielded(parseResponse(text))

\* texts of a model response without a fenced block
PlainTexts == {"", "Here are the results."}

\* texts of a model response that hold a fenced block: well formed, with
\* malformed JSON, with a required field missing or empty, with null
BlockTexts ==
  { "Counting.\n~~~sql\nSELECT count(*) FROM orders\n~~~",
    "~~~insights\n{\"keyAnswer\":\"42 orders\",\"metrics\":[]}\n~~~",
    "~~~insights\n{\"keyAnswer\":\"42 orders\"\n~~~",
    "~~~insights\n{\"metrics\":[]}\n~~~",
    "~~~insights\n{\"keyAnswer\":\"\",\"metrics\":[]}\n~~~",
    "~~~insights\nnull\n~~~",
    "~~~permission_denied\n{\"tables\":[\"users\"],\"message\":\"Access to users is restricted.\"}\n~~~",
    "~~~permission_denied\n{\"tables\":[\"users\"]}\n~~~",
    "~~~json\n{\"type\":\"bar\"}\n~~~" }

\* TypedEvents of each text
YieldedFor == [text \in PlainTexts \cup BlockTexts |-> TypedEvents(text)]

(***************************************************************************)
(* State: one chat request, from the saved configuration to the end of     *)
(* the turn's event stream                                                 *)
(***************************************************************************)
VARIABLES
  savedConfig,       \* the TablePermissionsConfig the operator saved
  caller,            \* who runs the turn: the chat route or a caller of the library
  cfgMaxIterations,  \* AnalystConfig.maxIterations as the caller gave it
  toolsPermissions,       \* the config createSupabaseTools closed over
  maxIterations,     \* DataAnalyst.maxIterations
  pc,                \* where the turn stands: idle, rejected, model, tools, blocked
                     \* (awaiting a round trip that never settles), closed (the
                     \* generator returned), failed (the generator threw)
  iterations,        \* chatStream's iterations
  modelCalls,        \* calls of anthropic.messages.stream made in the turn
  response,          \* the last model response: hasToolUse, stop_reason, tool_use blocks
  pending,           \* tool_use blocks of the response not yet executed
  lastTool,          \* the last tool call of the response and how it ended
  stream,            \* what the consumer of the turn's events has received
  endpointCall,      \* the last call of a stateless endpoint or helper of the web
                     \* application: what it was given and what it did
  heap,              \* the JavaScript objects that hold permission configs: config
                     \* objects and their tables arrays, by identity
  permissionsConfig, \* api/permissions: the module's permissionsConfig, a reference
  settingsPermissions, \* settings page: the permissions state, a reference
  held,              \* a reference to a config a reader took, and what it saw then
  analysts,          \* api/chat: the analysts Map, conversation id to DataAnalyst
  permissionsHash,   \* api/chat: the permissionsHash Map
  analystObjects,    \* the DataAnalyst objects constructed so far, by identity
  turns              \* the chat requests of the route: the analyst each one got
                     \* and the config each of its tool calls was authorized against

\* the state of a chat turn
turnVars == <<savedConfig, caller, cfgMaxIterations, toolsPermissions, maxIterations, pc,
              iterations, modelCalls, response, pending, lastTool, stream>>

\* the state of the permission stores of the web application
settingsVars == <<heap, permissionsConfig, settingsPermissions, held>>

\* the state of the chat route's conversations
convVars == <<analysts, permissionsHash, analystObjects, turns>>

\* the state outside a chat turn
outsideTurn == <<endpointCall, settingsVars, convVars>>

vars == <<turnVars, outsideTurn>>

\* no endpoint was called
NoCall == [kind |-> "none"]

\* the most objects the heap holds
MaxObjects == 6

Free == [type |-> "free"]
ConfigObject(defaultAccess, tables) ==
  [type |-> "config", defaultAccess |-> defaultAccess, tables |-> tables]
ArrayObject(items) == [type |-> "array", items |-> items]

\* no reader holds a config
NoHold == [config |-> 0, tables |-> 0]

\* the module's {defaultAccess: 'read', tables: []} and the DEFAULT_CONFIG the
\* settings page loads
SettingsIdle ==
  /\ heap = [i \in 1..MaxObjects |->
               CASE i = 1 -> ConfigObject("read", 2)
                 [] i = 2 -> ArrayObject(<<>>)
                 [] i = 3 -> ConfigObject("read", 4)
                 [] i = 4 -> ArrayObject(<<>>)
                 [] OTHER -> Free]
  /\ permissionsConfig = 1
  /\ settingsPermissions = 3
  /\ held = NoHold

\* the conversation ids of the chat requests: 'default', the id of a body
\* that has none
ConversationIds == {"default"}

\* permissionsHash.get(conversationId) of a conversation that has no hash
NoHash == [t |-> "undefined"]

\* new Map() twice, and no request made
ConvIdle ==
  /\ analysts = [c \in ConversationIds |-> 0]
  /\ permissionsHash = [c \in ConversationIds |-> NoHash]
  /\ analystObjects = <<>>
  /\ turns = <<>>

OutsideTurnIdle ==
  /\ endpointCall = NoCall
  /\ SettingsIdle
  /\ ConvIdle

NotSet == [set |-> FALSE, n |-> 0]
Configured(n) == [set |-> TRUE, n |-> n]

\* config.maxIterations || 10
DefaultMaxIterations == 10
MaxIterationsOf(cfg) ==
  IF cfg.set /\ cfg.n # 0 THEN cfg.n ELSE DefaultMaxIterations

NoResponse ==
  [hasToolUse |-> FALSE, stop_reason |-> "", toolUse |-> 0, text |-> "", typed |-> <<>>]

NoTool ==
  [name |-> "", input |-> ToolInput(Undefined, Undefined, Undefined),
   kind |-> "none", envelope |-> ErrorEnvelope(""), steps |-> <<>>, backend |-> <<>>]

\* the events received so far: how many done and error events, whether a
\* permission_denied event, whether a tool_result event that carries an
\* ACCESS_DENIED failure, the type of the last event, and how the stream
\* ended; the text events of a response add up to response.text
NoEvents ==
  [done |-> 0, error |-> 0, permission_denied |-> FALSE,
   accessDenied |-> FALSE, last |-> "", end |-> "open"]

Count(types, type) == Cardinality({i \in 1..Len(types) : types[i] = type})

\* yield of each event of types, in order
Emit(st, types) ==
  [st EXCEPT !.done = @ + Count(types, "done"),
             !.error = @ + Count(types, "error"),
             !.permission_denied = @ \/ Count(types, "permission_denied") > 0,
             !.last = IF types = <<>> THEN @ ELSE types[Len(types)]]

\* the generator returned: the route sends its [DONE] line and closes
Complete(st, who) ==
  [st EXCEPT !.end = IF who = "route" THEN "sentinel" ELSE "returned"]

\* the generator threw: the route's catch sends an error event and closes; a
\* caller of the library gets the exception
Fail(st, who) ==
  IF who = "route"
  THEN [Emit(st, <<"error">>) EXCEPT !.end = "error"]
  ELSE [st EXCEPT !.end = "thrown"]

\* the yield after the while loop
EmitDone(st, who) == Complete(Emit(st, <<"done">>), who)

\* the loop condition without the stop reason
ContinuesOnToolUse(resp) == resp.hasToolUse

\* if (hasToolUse) { ... if (stop_reason !== 'end_turn') continue; } break;
ContinuesLoop(resp) == resp.hasToolUse /\ resp.stop_reason # "end_turn"

Init ==
  /\ \/ /\ caller = "route"
        /\ savedConfig \in SavedConfigs
        /\ cfgMaxIterations = NotSet
     \/ /\ caller = "library"
        /\ savedConfig = DEFAULT_CONFIG
        /\ cfgMaxIterations \in {Configured(n) : n \in 0..MaxCfgIterations}
  /\ toolsPermissions = DefaultPermissions
  /\ maxIterations = DefaultMaxIterations
  /\ pc = "idle"
  /\ iterations = 0
  /\ modelCalls = 0
  /\ response = NoResponse
  /\ pending = 0
  /\ lastTool = NoTool
  /\ stream = NoEvents
  /\ OutsideTurnIdle

\* new DataAnalyst(config) and the start of chatStream
StartTurn(perms, cfg) ==
  /\ toolsPermissions' = perms
  /\ maxIterations' = MaxIterationsOf(cfg)
  /\ pc' = "model"
  /\ iterations' = 0
  /\ modelCalls' = 0
  /\ UNCHANGED <<savedConfig, caller, cfgMaxIterations, response, pending, lastTool, stream>>
  /\ UNCHANGED outsideTurn

\* POST /api/chat with the body ChatPanel builds: the schema accepts it,
\* getAnalyst constructs the analyst, the stream starts
PostChat ==
  /\ pc = "idle"
  /\ caller = "route"
  /\ PermissionsSchemaAccepts(ChatPanelPermissions(savedConfig))
  /\ StartTurn(ParsedPermissions(ChatPanelPermissions(savedConfig)), NotSet)

\* POST /api/chat answers 400 Invalid request
RejectChat ==
  /\ pc = "idle"
  /\ caller = "route"
  /\ ~PermissionsSchemaAccepts(ChatPanelPermissions(savedConfig))
  /\ pc' = "rejected"
  /\ UNCHANGED <<savedConfig, caller, cfgMaxIterations, toolsPermissions, maxIterations,
                 iterations, modelCalls, response, pending, lastTool, stream>>
  /\ UNCHANGED outsideTurn

\* a caller of the library constructs a DataAnalyst with maxIterations and no
\* permissions, and iterates chatStream
LibraryChat ==
  /\ pc = "idle"
  /\ caller = "library"
  /\ StartTurn(DefaultPermissions, cfgMaxIterations)

\* one pass of the while loop up to the tool calls: the model answers with
\* text deltas that add up to one of texts (or none), n tool_use blocks and a
\* stop reason; the typed events of the parsed text follow the text events
Respond(texts) ==
  /\ pc = "model"
  /\ iterations < maxIterations
  /\ \E text \in texts, n \in 0..MaxToolUse, stop \in StopReasons :
       LET resp == [hasToolUse |-> n > 0, stop_reason |-> stop, toolUse |-> n,
                    text |-> text, typed |-> YieldedFor[text]]
           st == Emit(stream, (IF text # "" THEN <<"text">> ELSE <<>>)
                              \o [i \in 1..Len(YieldedFor[text]) |->
                                    YieldedFor[text][i].type])
       IN /\ response' = resp
          /\ IF resp.hasToolUse
             THEN /\ pc' = "tools"
                  /\ pending' = n
                  /\ stream' = st
             ELSE /\ pc' = "closed"
                  /\ pending' = 0
                  /\ stream' = EmitDone(st, caller)
  /\ iterations' = iterations + 1
  /\ modelCalls' = modelCalls + 1
  /\ lastTool' = NoTool
  /\ UNCHANGED <<savedConfig, caller, cfgMaxIterations, toolsPermissions, maxIterations>>
  /\ UNCHANGED outsideTurn

\* the model answers with text that holds no fenced block
ModelRespond == Respond(PlainTexts)

\* the model call fails: messages.stream rejects, or the event stream or
\* finalMessage throws after some text deltas
ModelFail ==
  /\ pc = "model"
  /\ iterations < maxIterations
  /\ \E text \in BOOLEAN :
       stream' = Fail(Emit(stream, IF text THEN <<"text">> ELSE <<>>), caller)
  /\ pc' = "failed"
  /\ iterations' = iterations + 1
  /\ modelCalls' = modelCalls + 1
  /\ lastTool' = NoTool
  /\ UNCHANGED <<savedConfig, caller, cfgMaxIterations, toolsPermissions, maxIterations,
                 response, pending>>
  /\ UNCHANGED outsideTurn

\* the outcomes the backend gave for the round trips a call made
BackendGave(steps, script) ==
  LET IsRoundTrip(st) == st.op = "runQuery"
  IN SubSeq(script, 1, Len(filter(steps, [k \in 1..Len(steps) |-> IsRoundTrip(steps[k])])))

\* one pass of the for loop over toolUseBlocks, and after the last block the
\* continue or break and the yield of done
ToolCall ==
  /\ pc = "tools"
  /\ pending > 0
  /\ \E call \in ToolCalls, script \in Scripts :
     \E o \in {ToolOutcomes[toolsPermissions, call, script]} :
       LET before == Emit(stream, IF call.name = "execute_sql"
                                  THEN <<"tool_call", "sql">>
                                  ELSE <<"tool_call">>)
           after == [Emit(before,
                          IF o.kind = "return" /\ o.value.success
                             /\ o.value.payload = "result"
                          THEN <<"tool_result", "data">>
                          ELSE <<"tool_result">>)
                       EXCEPT !.accessDenied =
                         @ \/ (/\ o.kind = "return"
                               /\ ~o.value.success
                               /\ startsWith(o.value.error, "ACCESS_DENIED: "))]
       IN /\ lastTool' = [name |-> call.name, input |-> call.input, kind |-> o.kind,
                          envelope |-> IF o.kind = "return" THEN o.value
                                       ELSE ErrorEnvelope(o.error),
                          steps |-> o.steps,
                          backend |-> BackendGave(o.steps, script)]
          /\ CASE o.kind = "hang" ->
                    /\ pc' = "blocked"
                    /\ stream' = before
                    /\ pending' = pending
               [] o.kind = "throw" ->
                    /\ pc' = "failed"
                    /\ stream' = Fail(before, caller)
                    /\ pending' = pending
               [] OTHER ->
                    /\ pending' = pending - 1
                    /\ IF pending > 1
                       THEN pc' = "tools" /\ stream' = after
                       ELSE IF ContinuesLoop(response) /\ iterations < maxIterations
                       THEN pc' = "model" /\ stream' = after
                       ELSE pc' = "closed" /\ stream' = EmitDone(after, caller)
  /\ UNCHANGED <<savedConfig, caller, cfgMaxIterations, toolsPermissions, maxIterations,
                 iterations, modelCalls, response>>
  /\ UNCHANGED outsideTurn

Next ==
  \/ PostChat
  \/ RejectChat
  \/ LibraryChat
  \/ ModelRespond
  \/ ModelFail
  \/ ToolCall

Spec == Init /\ [][Next]_vars

(***************************************************************************)
(* The stateless endpoints and helpers of the web application: the schema  *)
(* route, and the three implementations of the table policy                *)
(***************************************************************************)
\* searchParams.get of a parameter that is absent
Null == [t |-> "null", s |-> "null"]

\* the table and schema parameters a caller of GET /api/schema may pass
TableParams == {Null, Str("users"), Str("orders"), Str("users' OR '1'='1")}
SchemaParams == {Null, Str("private"), Str("public'; DROP TABLE users; --")}

\* the texts of the round trips a tool call made
SentTexts(steps) ==
  LET IsRoundTrip(st) == st.op = "runQuery"
      Texts(sent) == [i \in 1..Len(sent) |-> sent[i].sql]
  IN Texts(filter(steps, [k \in 1..Len(steps) |-> IsRoundTrip(steps[k])]))

\* GET /api/schema: the catalog texts the handler sends, the names it
\* spliced into them, and the body it answers with; executeQuery turns a
\* backend error into {data: null, error}, and a round trip that never
\* settles leaves the request without an answer
SchemaRouteGET(tableParam, schemaParam, script) ==
  LET schema == IF schemaParam.t = "string" /\ schemaParam.s # ""
                THEN schemaParam.s ELSE "public"
      Answer(sent, names, body) ==
        [settled |-> TRUE, sent |-> sent, names |-> names, body |-> body]
      Pending(sent, names) ==
        [settled |-> FALSE, sent |-> sent, names |-> names, body |-> <<>>]
      Rows(data, ok) == IF ok THEN data ELSE <<>>
      ColumnInfos(columns, pks, fks) ==
        [i \in 1..Len(columns) |->
           [name |-> columns[i],
            isPrimaryKey |-> SeqContains(pks, columns[i]),
            isForeignKey |-> \E j \in 1..Len(fks) : fks[j].column_name = columns[i]]]
      Table(tableName) ==
        LET names == <<Str(tableName), Str(schema)>>
            qc == Query("columns", ColumnsSQL(tableName, schema), schema, tableName)
            qp == Query("pk", PkSQL(tableName, schema), schema, tableName)
            qf == Query("fk", FkSQL(tableName, schema), schema, tableName)
        IN IF script[1] = "hang" THEN Pending(<<qc.sql>>, names)
           ELSE IF script[1] = "error"
           THEN Answer(<<qc.sql>>, names,
                       [table |-> tableName, schema |-> schema, columns |-> <<>>,
                        error |-> "Could not fetch columns: backend error"])
           ELSE IF script[2] = "hang" THEN Pending(<<qc.sql, qp.sql>>, names)
           ELSE IF script[3] = "hang" THEN Pending(<<qc.sql, qp.sql, qf.sql>>, names)
           ELSE Answer(<<qc.sql, qp.sql, qf.sql>>, names,
                       [table |-> tableName, schema |-> schema, error |-> "",
                        columns |-> ColumnInfos(BackendRows(qc),
                                      Rows(BackendRows(qp), script[2] = "ok"),
                                      Rows(BackendRows(qf), script[3] = "ok"))])
      Tables(q) ==
        IF script[1] = "hang" THEN Pending(<<q.sql>>, <<Str(schema)>>)
        ELSE IF script[1] = "error"
        THEN Answer(<<q.sql>>, <<Str(schema)>>,
                    [tables |-> <<>>, error |-> "Could not fetch tables: backend error"])
        ELSE Answer(<<q.sql>>, <<Str(schema)>>,
                    [tables |-> BackendRows(q), error |-> ""])
  IN IF tableParam.t = "string" /\ tableParam.s # ""
     THEN Table(tableParam.s)
     ELSE Tables(Query("tables", ListTablesSQL(schema), schema, ""))

\* lib/table-permissions.ts canAccessTable
canAccessTableLib(config, tableName, schemaName) ==
  getTableAccess(config, tableName, schemaName).accessLevel # "none"

\* api/permissions/validate canAccessTable, over the module's permissionsConfig
canAccessTableValidate(config, tableName, schema) ==
  LET Decide(hits) ==
        IF hits # {}
        THEN config.tables[MinOf(hits)].accessLevel # "none"
        ELSE config.defaultAccess # "none"
  IN Decide({i \in 1..Len(config.tables) :
               /\ config.tables[i].table = tableName
               /\ config.tables[i].schema = schema})

\* the names the policy is asked about
PolicyTables == {"users", "Users", "USERS", "orders"}
PolicySchemas == {"public", "PUBLIC", "private"}
PolicyColumns == {"id", "name", "email", "ssn", "total"}

\* the turn's variables while no chat request is made
TurnIdle ==
  /\ caller = "route"
  /\ savedConfig = DEFAULT_CONFIG
  /\ cfgMaxIterations = NotSet
  /\ toolsPermissions = DefaultPermissions
  /\ maxIterations = DefaultMaxIterations
  /\ pc = "idle"
  /\ iterations = 0
  /\ modelCalls = 0
  /\ response = NoResponse
  /\ pending = 0
  /\ lastTool = NoTool
  /\ stream = NoEvents

PolicyInit ==
  /\ TurnIdle
  /\ OutsideTurnIdle

\* a request to GET /api/schema
SchemaGet ==
  /\ \E tableParam \in TableParams, schemaParam \in SchemaParams, script \in Scripts :
     \E r \in {SchemaRouteGET(tableParam, schemaParam, script)} :
       endpointCall' = [kind |-> "schema", table |-> tableParam, schema |-> schemaParam,
                        settled |-> r.settled, sent |-> r.sent, names |-> r.names,
                        body |-> r.body]
  /\ UNCHANGED <<turnVars, settingsVars, convVars>>

\* the agent's list_tables or get_table_schema, called with the same names
AgentCatalogCall ==
  /\ \E name \in {"list_tables", "get_table_schema"},
        tableParam \in TableParams \ {Null},
        schemaParam \in (SchemaParams \ {Null}) \cup {Undefined},
        script \in Scripts :
     \E o \in {handleToolCall(DefaultPermissions, name,
                              ToolInput(schemaParam, tableParam, Undefined), script)} :
       endpointCall' = [kind |-> "tool", table |-> tableParam, schema |-> schemaParam,
                        settled |-> o.kind = "return", sent |-> SentTexts(o.steps),
                        names |-> IF name = "list_tables"
                                  THEN <<IF Truthy(schemaParam) THEN schemaParam
                                         ELSE Str("public")>>
                                  ELSE <<tableParam,
                                         IF Truthy(schemaParam) THEN schemaParam
                                         ELSE Str("public")>>,
                        body |-> IF o.kind = "return" THEN o.value ELSE <<>>]
  /\ UNCHANGED <<turnVars, settingsVars, convVars>>

\* one question to each implementation of the table policy
CheckTableAccess ==
  /\ \E config \in SavedConfigs, table \in PolicyTables, schema \in PolicySchemas :
       endpointCall' = [kind |-> "canAccessTable", config |-> config,
                        table |-> table, schema |-> schema,
                        agent |-> canAccessTable(config, table, schema),
                        lib |-> canAccessTableLib(config, table, schema),
                        validate |-> canAccessTableValidate(config, table, schema)]
  /\ UNCHANGED <<turnVars, settingsVars, convVars>>

\* a question to the library's column policy
CheckColumnAccess ==
  /\ \E config \in SavedConfigs, table \in PolicyTables, column \in PolicyColumns :
       endpointCall' = [kind |-> "canAccessColumn", config |-> config,
                        table |-> table, schema |-> "public", column |-> column,
                        allowed |-> canAccessColumn(config, table, column, "public")]
  /\ UNCHANGED <<turnVars, settingsVars, convVars>>

PolicyNext ==
  \/ SchemaGet
  \/ AgentCatalogCall
  \/ CheckTableAccess
  \/ CheckColumnAccess

PolicySpec == PolicyInit /\ [][PolicyNext]_vars

(***************************************************************************)
(* The permission stores of the web application: the module-level config   *)
(* of api/permissions and the permissions state of the settings page       *)
(***************************************************************************)
\* the entries a client may put, and the keys it may delete
PutPermissions ==
  { Perm("users", "public", "none", <<>>, <<>>),
    Perm("users", "public", "read", <<"ssn">>, <<>>),
    Perm("Users", "public", "read", <<>>, <<>>) }

DeleteKeys == { <<"users", "public">>, <<"Users", "public">> }

\* tables: z.array(TablePermissionSchema).max(1000)
TablesLimit == 1000

\* a list of n entries for one table; the schema asks for no distinct keys
Repeated(n) == [i \in 1..n |-> Perm("orders", "public", "none", <<>>, <<>>)]

\* the bodies a client may post as the whole config: short lists, a list at
\* the limit and a list above it
PostBodies ==
  { [defaultAccess |-> "read", tables |-> Repeated(1)],
    [defaultAccess |-> "none", tables |-> <<>>],
    [defaultAccess |-> "read", tables |-> Repeated(TablesLimit)],
    [defaultAccess |-> "read", tables |-> Repeated(TablesLimit + 1)] }

\* TablePermissionSchema.safeParse(...).success
TablePermissionSchemaAccepts(permission) ==
  /\ isValidSQLIdentifier(Str(permission.table))
  /\ isValidSQLIdentifier(Str(permission.schema))
  /\ permission.accessLevel \in {"full", "read", "none"}
  /\ \A j \in 1..Len(permission.allowedColumns) :
       isValidSQLIdentifier(Str(permission.allowedColumns[j]))
  /\ \A j \in 1..Len(permission.blockedColumns) :
       isValidSQLIdentifier(Str(permission.blockedColumns[j]))

\* tables.findIndex(t => t.table === table && t.schema === schema), 1-based,
\* 0 when no entry matches
findIndex(tables, table, schema) ==
  LET First(hits) == IF hits = {} THEN 0 ELSE MinOf(hits)
  IN First({i \in 1..Len(tables) :
              tables[i].table = table /\ tables[i].schema = schema})

\* if (existingIndex >= 0) tables[existingIndex] = permission; else push
Upsert(tables, permission) ==
  LET At(existingIndex) ==
        IF existingIndex > 0
        THEN [tables EXCEPT ![existingIndex] = permission]
        ELSE Append(tables, permission)
  IN At(findIndex(tables, permission.table, permission.schema))

\* tables.filter(t => !(t.table === table && t.schema === schema))
Without(tables, table, schema) ==
  filter(tables, [k \in 1..Len(tables) |->
                    ~(tables[k].table = table /\ tables[k].schema = schema)])

\* the identities of n objects not yet allocated, lowest first
RECURSIVE FreshIds(_, _)
FreshIds(objects, n) ==
  IF n = 0 THEN <<>>
  ELSE LET Rest(id) == <<id>> \o FreshIds([objects EXCEPT ![id] = ArrayObject(<<>>)], n - 1)
       IN Rest(MinOf({i \in 1..MaxObjects : objects[i] = Free}))

CanAllocate(n) == Cardinality({i \in 1..MaxObjects : heap[i] = Free}) >= n

\* the tables of the config object a reference points to
TablesOf(objects, ref) == objects[objects[ref].tables].items

\* PermissionsConfigSchema.safeParse(...).success
PermissionsConfigSchemaAccepts(body) ==
  /\ body.defaultAccess \in {"full", "read", "none"}
  /\ Len(body.tables) <= TablesLimit
  /\ {j \in 1..Len(body.tables) : ~TablePermissionSchemaAccepts(body.tables[j])} = {}

SettingsInit ==
  /\ TurnIdle
  /\ OutsideTurnIdle

\* POST /api/permissions: permissionsConfig = parseResult.data, a fresh object
RoutePost ==
  /\ CanAllocate(2)
  /\ \E body \in PostBodies :
     \E ids \in {FreshIds(heap, 2)} :
       /\ PermissionsConfigSchemaAccepts(body)
       /\ heap' = [heap EXCEPT ![ids[1]] = ConfigObject(body.defaultAccess, ids[2]),
                               ![ids[2]] = ArrayObject(body.tables)]
       /\ permissionsConfig' = ids[1]
  /\ UNCHANGED <<settingsPermissions, held, turnVars, endpointCall, convVars>>

\* PUT /api/permissions: assigns into, or pushes onto, permissionsConfig.tables
RoutePut ==
  /\ \E permission \in PutPermissions :
       /\ TablePermissionSchemaAccepts(permission)
       /\ heap' = [heap EXCEPT ![heap[permissionsConfig].tables].items =
                                  Upsert(@, permission)]
  /\ UNCHANGED <<permissionsConfig, settingsPermissions, held, turnVars, endpointCall, convVars>>

\* DELETE /api/permissions: permissionsConfig.tables = tables.filter(...)
RouteDelete ==
  /\ CanAllocate(1)
  /\ \E key \in DeleteKeys :
     \E ids \in {FreshIds(heap, 1)} :
       heap' = [heap EXCEPT
                  ![ids[1]] = ArrayObject(Without(TablesOf(heap, permissionsConfig),
                                                  key[1], key[2])),
                  ![permissionsConfig].tables = ids[1]]
  /\ UNCHANGED <<permissionsConfig, settingsPermissions, held, turnVars, endpointCall, convVars>>

\* setPermissions(updateTablePermission(permissions, newPermission)):
\* newTables = [...config.tables], then {...config, tables: newTables}
updateTablePermission ==
  /\ CanAllocate(2)
  /\ \E permission \in PutPermissions :
     \E ids \in {FreshIds(heap, 2)} :
       /\ heap' = [heap EXCEPT
                     ![ids[1]] = ConfigObject(heap[settingsPermissions].defaultAccess,
                                              ids[2]),
                     ![ids[2]] = ArrayObject(Upsert(TablesOf(heap, settingsPermissions),
                                                    permission))]
       /\ settingsPermissions' = ids[1]
  /\ UNCHANGED <<permissionsConfig, held, turnVars, endpointCall, convVars>>

\* removeTablePermission: {...config, tables: config.tables.filter(...)}
removeTablePermission ==
  /\ CanAllocate(2)
  /\ \E key \in DeleteKeys :
     \E ids \in {FreshIds(heap, 2)} :
       /\ heap' = [heap EXCEPT
                     ![ids[1]] = ConfigObject(heap[settingsPermissions].defaultAccess,
                                              ids[2]),
                     ![ids[2]] = ArrayObject(Without(TablesOf(heap, settingsPermissions),
                                                     key[1], key[2]))]
       /\ settingsPermissions' = ids[1]
  /\ UNCHANGED <<permissionsConfig, held, turnVars, endpointCall, convVars>>

\* a reader takes the config of one of the stores and keeps the reference
ReaderTakes ==
  /\ held = NoHold
  /\ \E ref \in {permissionsConfig, settingsPermissions} :
       held' = [config |-> ref, tables |-> heap[ref].tables,
                sawConfig |-> heap[ref], sawTables |-> heap[heap[ref].tables]]
  /\ UNCHANGED <<heap, permissionsConfig, settingsPermissions, turnVars, endpointCall, convVars>>

SettingsNext ==
  \/ RoutePost
  \/ RoutePut
  \/ RouteDelete
  \/ updateTablePermission
  \/ removeTablePermission
  \/ ReaderTakes

SettingsSpec == SettingsInit /\ [][SettingsNext]_vars

(***************************************************************************)
(* The chat route's conversations: which analyst a request gets, and the   *)
(* config its tool calls are authorized against                            *)
(***************************************************************************)
\* the most chat requests, and the most tool calls of one request
MaxRequests == 2
MaxTurnCalls == 2

\* the configurations the chat panel may hold when it sends a request: each
\* differs from the first in one part
ConvConfigs ==
  { [defaultAccess |-> "read",
     tables |-> <<Perm("users", "public", "none", <<>>, <<>>)>>],
    [defaultAccess |-> "none",
     tables |-> <<Perm("users", "public", "none", <<>>, <<>>)>>],
    [defaultAccess |-> "read",
     tables |-> <<Perm("users", "public", "read", <<>>, <<>>)>>],
    [defaultAccess |-> "read",
     tables |-> <<Perm("users", "private", "none", <<>>, <<>>)>>],
    [defaultAccess |-> "read",
     tables |-> <<Perm("users", "public", "read", <<"ssn">>, <<>>)>>] }

\* body.permissions of a chat request; NotSet when the body has none
RequestPermissions == {ChatPanelPermissions(c) : c \in ConvConfigs} \cup {NotSet}

\* the module's currentPermissions
currentPermissions == [defaultAccess |-> "read", tables |-> <<>>]

\* Array.prototype.sort of an array of strings, as the multiset of its
\* members: two arrays sort to the same array exactly when they hold the
\* same members the same number of times
sort(entries) ==
  [x \in {entries[i] : i \in 1..Len(entries)} |->
     Cardinality({i \in 1..Len(entries) : entries[i] = x})]

\* hashPermissions: the object JSON.stringify is given; stringify of it is
\* one-to-one
hashPermissions(perms) ==
  [defaultAccess |-> perms.defaultAccess,
   tables |-> sort([i \in 1..Len(perms.tables) |->
                      perms.tables[i].table \o ":" \o perms.tables[i].accessLevel])]

\* new DataAnalyst({..., supabase: {..., permissions: perms}}): the tools of
\* the analyst close over perms
DataAnalyst(perms) == [permissions |-> perms, conversationHistory |-> <<>>]

\* clearHistory: this.conversationHistory = []
clearHistory(objects, ref) == [objects EXCEPT ![ref].conversationHistory = <<>>]

\* getAnalyst without the comparison of the hashes: the cached analyst of the
\* conversation is returned whatever the permissions of the request
getAnalystKeepOnChange(map, hashes, objects, conversationId, given) ==
  LET perms == IF given = NotSet THEN currentPermissions ELSE given
  IN IF map[conversationId] = 0
     THEN [analysts |-> [map EXCEPT ![conversationId] = Len(objects) + 1],
           permissionsHash |-> [hashes EXCEPT ![conversationId] = hashPermissions(perms)],
           analystObjects |-> Append(objects, DataAnalyst(perms)),
           analyst |-> Len(objects) + 1]
     ELSE [analysts |-> map,
           permissionsHash |-> [hashes EXCEPT ![conversationId] = hashPermissions(perms)],
           analystObjects |-> objects,
           analyst |-> map[conversationId]]

\* getAnalyst, with the environment configured: the maps and the objects
\* after the call, and the analyst returned
getAnalyst(map, hashes, objects, conversationId, given) ==
  LET perms == IF given = NotSet THEN currentPermissions ELSE given
      Got(newHash, kept) ==
        IF kept[conversationId] = 0
        THEN [analysts |-> [kept EXCEPT ![conversationId] = Len(objects) + 1],
              permissionsHash |-> [hashes EXCEPT ![conversationId] = newHash],
              analystObjects |-> Append(objects, DataAnalyst(perms)),
              analyst |-> Len(objects) + 1]
        ELSE [analysts |-> kept,
              permissionsHash |-> hashes,
              analystObjects |-> objects,
              analyst |-> kept[conversationId]]
  IN Got(hashPermissions(perms),
         IF map[conversationId] # 0 /\ hashes[conversationId] # hashPermissions(perms)
         THEN [map EXCEPT ![conversationId] = 0]
         ELSE map)

\* the config the tool calls of the analyst of a conversation are authorized
\* against at this moment
ToolPermissionsOfConversation(turn) ==
  IF analysts[turn.conversationId] = 0
  THEN currentPermissions
  ELSE analystObjects[analysts[turn.conversationId]].permissions

\* this.tools.handleToolCall of the analyst the request got: the permissions
\* createSupabaseTools closed over
ToolPermissions(turn) == analystObjects[turn.analyst].permissions

ConvInit ==
  /\ TurnIdle
  /\ OutsideTurnIdle

\* POST /api/chat with a valid body: the request gets its analyst and its
\* stream starts
ChatPost ==
  /\ Len(turns) < MaxRequests
  /\ \E conversationId \in ConversationIds, body \in RequestPermissions :
       /\ body # NotSet => PermissionsSchemaAccepts(body)
       /\ \E g \in {getAnalyst(analysts, permissionsHash, analystObjects, conversationId,
                               IF body = NotSet THEN NotSet ELSE ParsedPermissions(body))} :
            /\ analysts' = g.analysts
            /\ permissionsHash' = g.permissionsHash
            /\ analystObjects' = g.analystObjects
            /\ turns' = Append(turns, [conversationId |-> conversationId,
                                       supplied |-> body,
                                       analyst |-> g.analyst,
                                       used |-> <<>>,
                                       raced |-> FALSE])
  /\ UNCHANGED <<turnVars, endpointCall, settingsVars>>

\* chatStream of a request executes a tool call; the config the call was
\* authorized against is recorded, and whether a call of the request ran
\* while the Map held, for the conversation, another analyst with another
\* config
TurnToolCall ==
  /\ \E t \in 1..Len(turns) :
       /\ Len(turns[t].used) < MaxTurnCalls
       /\ turns' = [turns EXCEPT
                      ![t].used = Append(@, [permissions |-> ToolPermissions(turns[t])]),
                      ![t].raced =
                        @ \/ (/\ analysts[turns[t].conversationId]
                                   \notin {0, turns[t].analyst}
                              /\ ToolPermissionsOfConversation(turns[t])
                                   # ToolPermissions(turns[t]))]
  /\ UNCHANGED <<analysts, permissionsHash, analystObjects>>
  /\ UNCHANGED <<turnVars, endpointCall, settingsVars>>

\* DELETE /api/chat of a conversation that has an analyst
ChatDelete ==
  /\ \E conversationId \in ConversationIds :
       /\ analysts[conversationId] # 0
       /\ analystObjects' = clearHistory(analystObjects, analysts[conversationId])
       /\ analysts' = [analysts EXCEPT ![conversationId] = 0]
  /\ UNCHANGED <<permissionsHash, turns>>
  /\ UNCHANGED <<turnVars, endpointCall, settingsVars>>

\* chat requests, their tool calls, and permission updates of the
\* permissions route in any order
ConvNext ==
  \/ ChatPost
  \/ TurnToolCall
  \/ ChatDelete
  \/ RoutePut

ConvSpec == ConvInit /\ [][ConvNext]_vars

(***************************************************************************)
(* The event stream of a turn whose model writes fenced blocks             *)
(***************************************************************************)
\* the saved configuration of the turn: the table users is restricted
StreamConfigs ==
  { [defaultAccess |-> "read",
     tables |-> <<Perm("users", "public", "none", <<>>, <<>>)>>] }

StreamInit ==
  /\ caller = "route"
  /\ savedConfig \in StreamConfigs
  /\ cfgMaxIterations = NotSet
  /\ toolsPermissions = DefaultPermissions
  /\ maxIterations = DefaultMaxIterations
  /\ pc = "idle"
  /\ iterations = 0
  /\ modelCalls = 0
  /\ response = NoResponse
  /\ pending = 0
  /\ lastTool = NoTool
  /\ stream = NoEvents
  /\ OutsideTurnIdle

\* the model answers with text that holds a fenced block
ModelRespondBlocks == Respond(BlockTexts)

StreamNext ==
  \/ PostChat
  \/ ModelRespond
  \/ ModelRespondBlocks
  \/ ModelFail
  \/ ToolCall

StreamSpec == StreamInit /\ [][StreamNext]_vars

(***************************************************************************)
(* The conversation history of the analysts: what each request of the chat *)
(* route, and a chat call of the library, appends to conversationHistory   *)
(***************************************************************************)
\* the most requests and the most turns among them, the most tool_use blocks
\* of a model response, and the most model calls of a turn that are followed
MaxHistoryRequests == 3
MaxChats == 2
MaxBlocks == 2
MaxModelCalls == 2

\* body.permissions of the chat requests: none, and one configuration
HistoryPermissions ==
  {NotSet, ChatPanelPermissions([defaultAccess |-> "none", tables |-> <<>>])}

\* the tool_use blocks a model response may hold, by name and input
HistoryCalls ==
  { [name |-> "execute_sql",
     input |-> ToolInput(Undefined, Undefined, Str("SELECT id, total FROM orders"))] }

\* how the backend settles the round trips of a tool call that returns
HistoryScripts == { <<"ok", "ok", "ok">>, <<"error", "ok", "ok">> }

\* the configurations the analysts of the requests are constructed with
HistoryConfigs ==
  {IF body = NotSet THEN currentPermissions ELSE ParsedPermissions(body) :
     body \in HistoryPermissions} \cup {DefaultPermissions}

\* handleToolCall for each configuration, tool_use block and backend script
HistoryOutcomes ==
  [c \in HistoryConfigs, call \in HistoryCalls, script \in HistoryScripts |->
     handleToolCall(c, call.name, call.input, script)]

\* the lists of at most n tool_use blocks
RECURSIVE BlockLists(_)
BlockLists(n) ==
  IF n = 0 THEN {<<>>}
  ELSE BlockLists(n - 1)
         \cup {Append(b, c) : b \in {l \in BlockLists(n - 1) : Len(l) = n - 1},
                              c \in HistoryCalls}

\* the messages of conversationHistory: {role: 'user', content: userMessage},
\* {role: 'assistant', content} by the ids of the tool_use blocks of content,
\* and {role: 'user', content: [{type: 'tool_result', tool_use_id, content}]};
\* turn tells the texts of the requests apart
UserMessage(t) ==
  [role |-> "user", type |-> "text", turn |-> t, ids |-> <<>>, success |-> TRUE]
AssistantMessage(t, ids) ==
  [role |-> "assistant", type |-> "content", turn |-> t, ids |-> ids, success |-> TRUE]
ToolResultMessage(t, id, envelope) ==
  [role |-> "user", type |-> "tool_result", turn |-> t, ids |-> <<id>>,
   success |-> envelope.success]

\* the id the API gives the k-th tool_use block of the n-th response of a turn
BlockId(t, n, k) == <<t, n, k>>

\* the tool_use blocks of a response, with their ids
Blocks(t, n, calls) ==
  [k \in 1..Len(calls) |-> [id |-> BlockId(t, n, k), name |-> calls[k].name,
                            input |-> calls[k].input]]

IdsOf(blocks) == [k \in 1..Len(blocks) |-> blocks[k].id]

\* the events of a tool call before handleToolCall is awaited: chatStream
\* yields the sql before the call, chat reports it after the result
EventsBeforeCall(method, block) ==
  IF method = "chatStream" /\ block.name = "execute_sql" /\ Truthy(block.input.sql)
  THEN <<[type |-> "tool_call", id |-> block.id], [type |-> "sql", id |-> block.id]>>
  ELSE <<[type |-> "tool_call", id |-> block.id]>>

\* the events after handleToolCall returned
EventsAfterCall(method, block, envelope) ==
  <<[type |-> "tool_result", id |-> block.id]>>
    \o (IF envelope.success /\ envelope.payload = "result"
        THEN <<[type |-> "data", id |-> block.id]>> ELSE <<>>)
    \o (IF method = "chat" /\ block.name = "execute_sql" /\ Truthy(block.input.sql)
        THEN <<[type |-> "sql", id |-> block.id]>> ELSE <<>>)

\* this.conversationHistory.push(message) of the analyst ref
push(objects, ref, messages) ==
  [objects EXCEPT ![ref].conversationHistory = @ \o messages]

\* the tool-result message is appended only when the call succeeded
pushToolResultOnSuccess(t, id, envelope) ==
  IF envelope.success THEN <<ToolResultMessage(t, id, envelope)>> ELSE <<>>

\* the tool-result message chatStream pushes, and chat collects, after a call
pushToolResult(t, id, envelope) == <<ToolResultMessage(t, id, envelope)>>

\* a request in the order of arrival, with the position of its turn
Request(kind, method, conversationId, hash, ref) ==
  [kind |-> kind, method |-> method, conversationId |-> conversationId, hash |-> hash,
   analyst |-> ref, pc |-> "closed", iterations |-> 0, blocks |-> <<>>, ran |-> 0,
   stop_reason |-> "", events |-> <<>>, pushed |-> <<>>, seen |-> <<>>,
   toolResults |-> <<>>]

\* the turns among the requests
Chats == {t \in 1..Len(turns) : turns[t].kind # "DELETE"}

HistoryInit ==
  /\ TurnIdle
  /\ OutsideTurnIdle

\* POST /api/chat: getAnalyst, then chatStream pushes the user message and
\* makes its first model call with messages: this.conversationHistory
HistoryPost ==
  /\ Len(turns) < MaxHistoryRequests
  /\ Cardinality(Chats) < MaxChats
  /\ \E conversationId \in ConversationIds, body \in HistoryPermissions :
       /\ body # NotSet => PermissionsSchemaAccepts(body)
       /\ \E g \in {getAnalyst(analysts, permissionsHash, analystObjects, conversationId,
                               IF body = NotSet THEN NotSet ELSE ParsedPermissions(body))} :
          \E t \in {Len(turns) + 1} :
          \E after \in {push(g.analystObjects, g.analyst, <<UserMessage(t)>>)} :
            /\ analysts' = g.analysts
            /\ permissionsHash' = g.permissionsHash
            /\ analystObjects' = after
            /\ turns' = Append(turns,
                 [Request("chat", "chatStream", conversationId,
                          g.permissionsHash[conversationId], g.analyst)
                    EXCEPT !.pc = "model", !.iterations = 1,
                           !.pushed = <<UserMessage(t)>>,
                           !.seen = after[g.analyst].conversationHistory])
  /\ UNCHANGED <<turnVars, endpointCall, settingsVars>>

\* a caller of the library constructs an analyst of its own and calls chat
LibraryChatCall ==
  /\ Len(turns) < MaxHistoryRequests
  /\ Cardinality(Chats) < MaxChats
  /\ \A t \in 1..Len(turns) : turns[t].method # "chat"
  /\ \E t \in {Len(turns) + 1}, ref \in {Len(analystObjects) + 1} :
     \E after \in {push(Append(analystObjects, DataAnalyst(DefaultPermissions)), ref,
                        <<UserMessage(t)>>)} :
       /\ analystObjects' = after
       /\ turns' = Append(turns,
            [Request("library", "chat", "", NoHash, ref)
               EXCEPT !.pc = "model", !.iterations = 1,
                      !.pushed = <<UserMessage(t)>>,
                      !.seen = after[ref].conversationHistory])
  /\ UNCHANGED <<analysts, permissionsHash>>
  /\ UNCHANGED <<turnVars, endpointCall, settingsVars>>

\* DELETE /api/chat: clearHistory of the analyst of the conversation, then
\* analysts.delete
HistoryDelete ==
  /\ Len(turns) < MaxHistoryRequests
  /\ \E conversationId \in ConversationIds :
       /\ IF analysts[conversationId] # 0
          THEN /\ analystObjects' = clearHistory(analystObjects, analysts[conversationId])
               /\ analysts' = [analysts EXCEPT ![conversationId] = 0]
          ELSE UNCHANGED <<analystObjects, analysts>>
       /\ turns' = Append(turns, Request("DELETE", "", conversationId, NoHash, 0))
  /\ UNCHANGED permissionsHash
  /\ UNCHANGED <<turnVars, endpointCall, settingsVars>>

\* the end of an iteration of the while loop: the next model call, or done
AfterIteration(turn) ==
  IF /\ turn.blocks # <<>>
     /\ turn.stop_reason # "end_turn"
     /\ turn.iterations < DefaultMaxIterations
  THEN [turn EXCEPT !.pc = "model", !.iterations = @ + 1, !.blocks = <<>>, !.ran = 0,
                    !.toolResults = <<>>]
  ELSE [turn EXCEPT !.pc = "closed", !.blocks = <<>>, !.ran = 0, !.toolResults = <<>>,
                    !.events = @ \o <<[type |-> "done", id |-> <<>>]>>]

\* the model call of a turn returns its response. chatStream pushes the
\* assistant message and starts the first tool call; chat starts the first
\* tool call and pushes the assistant message after the last
HistoryModelResponds ==
  /\ \E t \in 1..Len(turns) :
       /\ turns[t].pc = "model"
       /\ \E calls \in BlockLists(MaxBlocks), stop_reason \in StopReasons :
          \E blocks \in {Blocks(t, turns[t].iterations, calls)} :
          \E message \in {AssistantMessage(t, IdsOf(blocks))} :
          \E turn \in {[turns[t] EXCEPT !.blocks = blocks, !.stop_reason = stop_reason]} :
            /\ turns[t].iterations = MaxModelCalls => calls = <<>>
            /\ calls = <<>> => stop_reason = "end_turn"
            /\ IF calls = <<>>
               THEN /\ analystObjects' = push(analystObjects, turn.analyst, <<message>>)
                    /\ turns' = [turns EXCEPT ![t] =
                                   AfterIteration([turn EXCEPT !.pushed = @ \o <<message>>])]
               ELSE IF turn.method = "chatStream"
               THEN /\ analystObjects' = push(analystObjects, turn.analyst, <<message>>)
                    /\ turns' = [turns EXCEPT ![t] =
                                   [turn EXCEPT !.pc = "tool",
                                                !.pushed = @ \o <<message>>,
                                                !.events = @ \o EventsBeforeCall(turn.method,
                                                                                 blocks[1])]]
               ELSE /\ analystObjects' = analystObjects
                    /\ turns' = [turns EXCEPT ![t] =
                                   [turn EXCEPT !.pc = "tool",
                                                !.events = @ \o EventsBeforeCall(turn.method,
                                                                                 blocks[1])]]
  /\ UNCHANGED <<analysts, permissionsHash>>
  /\ UNCHANGED <<turnVars, endpointCall, settingsVars>>

\* the model call of a turn throws: the route's catch sends an error event, a
\* caller of chat gets the exception
HistoryModelFails ==
  /\ \E t \in 1..Len(turns) :
       /\ turns[t].pc = "model"
       /\ turns' = [turns EXCEPT ![t].pc = "failed",
                                 ![t].events = IF turns[t].method = "chatStream"
                                               THEN @ \o <<[type |-> "error", id |-> <<>>]>>
                                               ELSE @]
  /\ UNCHANGED <<analysts, permissionsHash, analystObjects>>
  /\ UNCHANGED <<turnVars, endpointCall, settingsVars>>

\* handleToolCall of the tool call a turn awaits returns its envelope
HistoryToolReturns ==
  /\ \E t \in 1..Len(turns) :
       /\ turns[t].pc = "tool"
       /\ \E script \in HistoryScripts :
          \E k \in {turns[t].ran + 1} :
          \E block \in {turns[t].blocks[k]} :
          \E o \in {HistoryOutcomes[analystObjects[turns[t].analyst].permissions,
                                    [name |-> block.name, input |-> block.input],
                                    script]} :
          \E result \in {pushToolResult(t, block.id, o.value)} :
          \E turn \in {[turns[t] EXCEPT
                          !.ran = k,
                          !.events = @ \o EventsAfterCall(turns[t].method, block, o.value)
                                       \o (IF k < Len(turns[t].blocks)
                                           THEN EventsBeforeCall(turns[t].method,
                                                                 turns[t].blocks[k + 1])
                                           ELSE <<>>)]} :
            /\ o.kind = "return"
            /\ IF turn.method = "chatStream"
               THEN /\ analystObjects' = push(analystObjects, turn.analyst, result)
                    /\ turns' = [turns EXCEPT ![t] =
                                   IF k < Len(turn.blocks)
                                   THEN [turn EXCEPT !.pushed = @ \o result]
                                   ELSE AfterIteration([turn EXCEPT !.pushed = @ \o result])]
               ELSE IF k < Len(turn.blocks)
               THEN /\ analystObjects' = analystObjects
                    /\ turns' = [turns EXCEPT ![t] =
                                   [turn EXCEPT !.toolResults = @ \o result]]
               ELSE \E all \in {<<AssistantMessage(t, IdsOf(turn.blocks))>>
                                  \o turn.toolResults \o result} :
                      /\ analystObjects' = push(analystObjects, turn.analyst, all)
                      /\ turns' = [turns EXCEPT ![t] =
                                     AfterIteration([turn EXCEPT !.pushed = @ \o all])]
  /\ UNCHANGED <<analysts, permissionsHash>>
  /\ UNCHANGED <<turnVars, endpointCall, settingsVars>>

HistoryNext ==
  \/ HistoryPost
  \/ LibraryChatCall
  \/ HistoryDelete
  \/ HistoryModelResponds
  \/ HistoryModelFails
  \/ HistoryToolReturns

HistorySpec == HistoryInit /\ [][HistoryNext]_vars

(***************************************************************************)
(* The pure helpers, applied to texts built from a few pieces              *)
(***************************************************************************)
\* the most pieces of a text
MaxPieces == 3

\* the texts of at most n pieces
RECURSIVE TextsOf(_, _)
TextsOf(pieces, n) ==
  LET Longer(shorter) == shorter \cup {t \o piece : t \in shorter, piece \in pieces}
  IN IF n = 0 THEN {""} ELSE Longer(TextsOf(pieces, n - 1))

\* pieces of the texts validateSQL is given: statements, separators, blocked
\* keywords in either case, a word character that continues a keyword
SqlPieces == {"select 1", "WITH", " ", ";", "DROP", "_x", "exec", "--"}

SqlTexts == TextsOf(SqlPieces, MaxPieces)

HelperInit ==
  /\ TurnIdle
  /\ OutsideTurnIdle

\* pieces of the texts sanitizeSQL is given
SanitizePieces == {"SELECT 1", ";", " ", ";\n;", "; x"}

SanitizeTexts == TextsOf(SanitizePieces, MaxPieces)

\* pieces of the texts the extractors are given
ExtractPieces ==
  { "SELECT * ",
    "FROM public.Orders o ",
    "JOIN users u ON o.uid = u.id ",
    "WHERE o.id IN (SELECT oid FROM items) ",
    "join \"Orders\" x " }

ExtractTexts == TextsOf(ExtractPieces, MaxPieces)

\* a call of validateSQL; the helpers keep no state, so a behaviour makes
\* one call
CallValidateSQL ==
  /\ endpointCall = NoCall
  /\ \E sql \in SqlTexts :
       endpointCall' = [kind |-> "validateSQL", sql |-> sql, result |-> validateSQL(sql)]
  /\ UNCHANGED <<turnVars, settingsVars, convVars>>

\* a call of sanitizeSQL, and a call of it on its own result
CallSanitizeSQL ==
  /\ endpointCall = NoCall
  /\ \E sql \in SanitizeTexts :
       endpointCall' = [kind |-> "sanitizeSQL", sql |-> sql,
                        result |-> sanitizeSQL(sql),
                        again |-> sanitizeSQL(sanitizeSQL(sql))]
  /\ UNCHANGED <<turnVars, settingsVars, convVars>>

\* a call of each extractor
CallExtractTables ==
  /\ endpointCall = NoCall
  /\ \E sql \in ExtractTexts :
       endpointCall' = [kind |-> "extractTablesFromSQL", sql |-> sql,
                        agent |-> extractTablesFromSQL(sql),
                        lib |-> extractTablesFromSQLLib(sql)]
  /\ UNCHANGED <<turnVars, settingsVars, convVars>>

HelperNext ==
  \/ CallValidateSQL
  \/ CallSanitizeSQL
  \/ CallExtractTables

HelperSpec == HelperInit /\ [][HelperNext]_vars

(***************************************************************************)
(* What the properties read                                                *)
(***************************************************************************)
QueryTexts == {e.sql : e \in Queries}

\* validateSQL(sql).valid of each text
ValidSQL == [q \in QueryTexts |-> validateSQL(q).valid]

\* extractTablesFromSQL of each text
ExtractedTables == [q \in QueryTexts |-> extractTablesFromSQL(q)]

\* validateTableAccess(sql).allowed of each configuration and text
AccessAllowed ==
  [c \in AgentConfigs |-> [q \in QueryTexts |-> validateTableAccess(c, q).allowed]]

\* the tables the backend reads when it runs a text
ReadsOf == [q \in QueryTexts |-> (CHOOSE e \in Queries : e.sql = q).reads]

\* the access level a configuration resolves for a table
AccessLevelOf(config, table, schema) ==
  getTablePermission(config, table, schema).accessLevel

\* whether a call sent a text to the backend
Sent(steps) == \E i \in 1..Len(steps) : steps[i].op = "runQuery"

OpsOf(steps) == [i \in 1..Len(steps) |-> steps[i].op]

\* the last tool call returned a failure envelope whose message starts so
ToolFailedWith(prefix) ==
  /\ lastTool.kind = "return"
  /\ ~lastTool.envelope.success
  /\ lastTool.envelope.payload = "error"
  /\ startsWith(lastTool.envelope.error, prefix)

\* the schema handleToolCall passes on: (toolInput.schema as string) || 'public'
SchemaAsked ==
  IF Truthy(lastTool.input.schema) THEN lastTool.input.schema ELSE Str("public")

\* a script of the backend that starts with the round trips the last call made
ScriptWith(backend) ==
  CHOOSE script \in Scripts : SubSeq(script, 1, Len(backend)) = backend

TurnEnded == pc \in {"closed", "failed"}

(***************************************************************************)
(* C1                                                                      *)
(***************************************************************************)
\* C1: executeSQL sends a text to the backend only as its third step, after
\* validateSQL returned valid and then validateTableAccess returned allowed.
\* A text that fails validateSQL is neither access-checked nor sent, and its
\* error is the validation failure; a text whose extracted tables include one
\* with access level none is not sent.
C1_ValidateThenAccessThenRun ==
  lastTool.name = "execute_sql" =>
    LET sql == lastTool.input.sql
        ops == OpsOf(lastTool.steps)
    IN /\ Sent(lastTool.steps) =>
            /\ ops = <<"validateSQL", "validateTableAccess", "runQuery">>
            /\ sql.t = "string"
            /\ ValidSQL[sql.s]
            /\ AccessAllowed[toolsPermissions][sql.s]
       /\ (sql.t = "string" /\ ~ValidSQL[sql.s]) =>
            /\ ops = <<"validateSQL">>
            /\ ToolFailedWith("SQL validation failed: ")
       /\ (/\ sql.t = "string"
           /\ ValidSQL[sql.s]
           /\ \E k \in 1..Len(ExtractedTables[sql.s]) :
                AccessLevelOf(toolsPermissions, ExtractedTables[sql.s][k], "public")
                  = "none") =>
            /\ ops = <<"validateSQL", "validateTableAccess">>
            /\ ToolFailedWith("ACCESS_DENIED: ")

\* an invalid text that names a restricted table fails on validation
C1_Witness ==
  /\ lastTool.name = "execute_sql"
  /\ lastTool.input.sql = Str("DELETE FROM users")
  /\ AccessLevelOf(toolsPermissions, "users", "public") = "none"
  /\ ToolFailedWith("SQL validation failed: ")
  /\ OpsOf(lastTool.steps) = <<"validateSQL">>

(***************************************************************************)
(* C2                                                                      *)
(***************************************************************************)
\* C2: a text accepted by validateSQL that reads a table whose resolved access
\* level is none fails with ACCESS_DENIED and is never sent to the backend,
\* whatever syntax names the table.
C2_RestrictedTableNeverSent ==
  (/\ lastTool.name = "execute_sql"
   /\ lastTool.input.sql.t = "string"
   /\ ValidSQL[lastTool.input.sql.s]
   /\ \E t \in ReadsOf[lastTool.input.sql.s] :
        AccessLevelOf(toolsPermissions, t[2], t[1]) = "none")
  => /\ ToolFailedWith("ACCESS_DENIED: ")
     /\ ~Sent(lastTool.steps)

(***************************************************************************)
(* C3                                                                      *)
(***************************************************************************)
\* C3: handleToolCall never throws.  Whenever the switch raised an exception,
\* the call returned the envelope {success: false, error: message}, and a turn
\* never fails after a tool call.
C3_HandleToolCallNeverThrows ==
  /\ pc = "failed" => lastTool.kind = "none"
  /\ lastTool.kind # "none" =>
       LET call == [name |-> lastTool.name, input |-> lastTool.input]
           inSwitch == DispatchOutcomes[toolsPermissions, call,
                                        ScriptWith(lastTool.backend)]
       IN /\ lastTool.kind # "throw"
          /\ inSwitch.kind = "throw" =>
               /\ lastTool.kind = "return"
               /\ lastTool.envelope = ErrorEnvelope(inSwitch.error)
               /\ inSwitch.error # ""

\* execute_sql without sql: the TypeError comes back as an envelope
C3_Witness ==
  /\ lastTool.name = "execute_sql"
  /\ lastTool.input.sql = Undefined
  /\ lastTool.kind = "return"
  /\ lastTool.envelope =
       ErrorEnvelope("Cannot read properties of undefined (reading 'toUpperCase')")
  /\ pc \in {"tools", "model", "closed"}

(***************************************************************************)
(* C4                                                                      *)
(***************************************************************************)
\* C4: in every turn the event stream holds exactly one done event, and it is
\* the last event of the turn.
C4_ExactlyOneDoneAndLast ==
  /\ stream.done <= 1
  /\ TurnEnded => stream.done = 1 /\ stream.last = "done"

(***************************************************************************)
(* C5                                                                      *)
(***************************************************************************)
\* C5: when the model call fails, the consumer receives a single error event
\* followed by a done event.
C5_ErrorThenDone ==
  pc = "failed" =>
    /\ stream.error = 1
    /\ stream.done = 1
    /\ stream.last = "done"

(***************************************************************************)
(* C6                                                                      *)
(***************************************************************************)
\* the cap the caller asked for: maxIterations, 10 when not configured
ConfiguredCap ==
  IF cfgMaxIterations.set THEN cfgMaxIterations.n ELSE DefaultMaxIterations

\* C6: a turn makes at most maxIterations model calls (10 when not
\* configured); a turn that reaches the cap ends with done, keeps the text
\* already produced and raises no error.
C6_AtMostMaxIterationsModelCalls ==
  pc \notin {"idle", "rejected"} =>
    /\ modelCalls <= ConfiguredCap
    /\ (pc = "closed" /\ modelCalls = ConfiguredCap) =>
         /\ stream.done = 1
         /\ stream.last = "done"
         /\ stream.error = 0

(***************************************************************************)
(* C7                                                                      *)
(***************************************************************************)
\* the last response held a tool call and did not stop with end_turn
RequestsFollowUp == response.toolUse >= 1 /\ response.stop_reason # "end_turn"

\* C7: below the cap the loop issues another model call exactly when the last
\* response held a tool call and its stop reason was not end_turn, and goes
\* to done otherwise; after the last tool call of a response returned, with
\* success or with an error envelope, the turn is at one of the two.
C7_ContinuesIffToolUseAndNotEndTurn ==
  /\ (pc = "model" /\ modelCalls > 0) =>
       RequestsFollowUp /\ iterations < maxIterations
  /\ (pc = "closed" /\ iterations < maxIterations) =>
       ~RequestsFollowUp /\ stream.last = "done"
  /\ (lastTool.kind = "return" /\ pending = 0) =>
       /\ pc \in {"model", "closed"}
       /\ iterations < maxIterations => (pc = "model" <=> RequestsFollowUp)

\* a failed tool call, and the loop goes on to the next model call
C7_Witness ==
  /\ pc = "model"
  /\ lastTool.kind = "return"
  /\ ~lastTool.envelope.success
  /\ pending = 0
  /\ RequestsFollowUp

(***************************************************************************)
(* C8                                                                      *)
(***************************************************************************)
\* the names list_tables returned
Listed == [i \in 1..Len(lastTool.envelope.tables) |-> lastTool.envelope.tables[i].name]

\* the catalog's tables of a schema that a configuration does not restrict
VisibleTables(config, schema) ==
  LET Visible(e) == e.schema = schema /\ AccessLevelOf(config, e.name, e.schema) # "none"
      es == filter(Catalog, [k \in 1..Len(Catalog) |-> Visible(Catalog[k])])
  IN [i \in 1..Len(es) |-> es[i].name]

\* C8: the list listTables returns holds no table whose resolved access level
\* is none, and when the backend answers it is the catalog's list without the
\* restricted tables.
C8_ListTablesHidesRestricted ==
  (/\ lastTool.name = "list_tables"
   /\ lastTool.kind = "return"
   /\ lastTool.envelope.success)
  => /\ \A i \in 1..Len(Listed) :
          AccessLevelOf(toolsPermissions, Listed[i], SchemaAsked.s) # "none"
     /\ lastTool.backend = <<"ok">> =>
          Listed = VisibleTables(toolsPermissions, SchemaAsked.s)

\* a schema with a restricted table was listed, and the table is missing
C8_Witness ==
  /\ lastTool.name = "list_tables"
  /\ lastTool.kind = "return"
  /\ lastTool.envelope.success
  /\ lastTool.backend = <<"ok">>
  /\ Listed # <<>>
  /\ Len(Listed) < Len(CatalogSchemaTables(SchemaAsked.s))

(***************************************************************************)
(* C9                                                                      *)
(***************************************************************************)
\* get_table_schema was asked for a table whose resolved access level is none
SchemaOfRestrictedAsked ==
  /\ lastTool.name = "get_table_schema"
  /\ lastTool.input.table_name.t = "string"
  /\ SchemaAsked.t = "string"
  /\ AccessLevelOf(toolsPermissions, lastTool.input.table_name.s, SchemaAsked.s) = "none"

DeniedNamingTable ==
  /\ ToolFailedWith("ACCESS_DENIED: ")
  /\ includes(lastTool.envelope.error, "'" \o lastTool.input.table_name.s \o "'")

\* C9 as stated: getTableSchema on a table whose resolved access level is none
\* fails with ACCESS_DENIED naming the table, before any catalog query is sent.
C9_RestrictedSchemaIsAccessDenied ==
  SchemaOfRestrictedAsked => DeniedNamingTable /\ ~Sent(lastTool.steps)

\* C9 amended: getTableSchema on a table whose resolved access level is none
\* sends no catalog query and returns no schema; it fails with ACCESS_DENIED
\* naming the table when table and schema name pass the identifier check, and
\* with the invalid-identifier error otherwise.
C9_RestrictedSchemaFailsBeforeAnyQuery ==
  SchemaOfRestrictedAsked =>
    /\ ~Sent(lastTool.steps)
    /\ lastTool.envelope.table = NoTable
    /\ IF /\ isValidSQLIdentifier(lastTool.input.table_name)
          /\ isValidSQLIdentifier(SchemaAsked)
       THEN DeniedNamingTable
       ELSE ToolFailedWith("Invalid ")

\* the schema of a restricted table with a safe name was asked for and denied
C9_Witness ==
  /\ SchemaOfRestrictedAsked
  /\ lastTool.input.table_name = Str("users")
  /\ DeniedNamingTable
  /\ lastTool.steps = <<Step("canAccessTable", "")>>

(***************************************************************************)
(* C10                                                                     *)
(***************************************************************************)
\* the columns of the catalog's table that pass both lists of the entry the
\* operator saved for it
ColumnsPassingBothLists(config, table, schema) ==
  LET es == CatalogEntries(schema, table)
      Passes(col) == canAccessColumn(config, table, col, schema)
  IN IF es = <<>> THEN <<>>
     ELSE filter(es[1].columns,
                 [k \in 1..Len(es[1].columns) |-> Passes(es[1].columns[k])])

\* C10: through a chat request, the columns getTableSchema returns for an
\* accessible table are the catalog columns that are not in blockedColumns
\* and, when allowedColumns is non-empty, are in allowedColumns of the saved
\* permission entry.
C10_ColumnsPassBothLists ==
  (/\ caller = "route"
   /\ lastTool.name = "get_table_schema"
   /\ lastTool.kind = "return"
   /\ lastTool.envelope.success)
  => [i \in 1..Len(lastTool.envelope.table.columns) |->
        lastTool.envelope.table.columns[i].name]
     = ColumnsPassingBothLists(savedConfig, lastTool.envelope.table.name,
                               lastTool.envelope.table.schema)

(***************************************************************************)
(* C11                                                                     *)
(***************************************************************************)
\* the blockedColumns of the entry the agent's configuration resolves
BlockedColumnsOf(config, table, schema) ==
  getTablePermission(config, table, schema).blockedColumns

\* the columns the catalog holds for a table
CatalogColumns(schema, table) ==
  IF CatalogEntries(schema, table) = <<>> THEN <<>>
  ELSE CatalogEntries(schema, table)[1].columns

\* C11: no tool result returned to the model holds a column that the
\* configuration lists in blockedColumns of its table: the columns of a
\* get_table_schema result, and the columns of the rows of an execute_sql
\* result for the tables the query reads.
C11_BlockedColumnsNeverReturned ==
  (lastTool.kind = "return" /\ lastTool.envelope.success) =>
    /\ lastTool.name = "get_table_schema" =>
         \A i \in 1..Len(lastTool.envelope.table.columns) :
           ~SeqContains(BlockedColumnsOf(toolsPermissions,
                                         lastTool.envelope.table.name,
                                         lastTool.envelope.table.schema),
                        lastTool.envelope.table.columns[i].name)
    /\ lastTool.name = "execute_sql" =>
         \A t \in ReadsOf[lastTool.input.sql.s] :
           \A i \in 1..Len(lastTool.envelope.result.columns) :
             SeqContains(CatalogColumns(t[1], t[2]), lastTool.envelope.result.columns[i])
               => ~SeqContains(BlockedColumnsOf(toolsPermissions, t[2], t[1]),
                               lastTool.envelope.result.columns[i])

(***************************************************************************)
(* C12                                                                     *)
(***************************************************************************)
\* C12: whenever a call sent a catalog text, every table and schema name that
\* was spliced into the text passes the identifier check, in the agent's
\* tools and in the schema route alike.
C12_CatalogNamesValidated ==
  (endpointCall.kind \in {"schema", "tool"} /\ endpointCall.sent # <<>>) =>
    \A i \in 1..Len(endpointCall.names) : isValidSQLIdentifier(endpointCall.names[i])

(***************************************************************************)
(* C13                                                                     *)
(***************************************************************************)
\* the decision of the policy as stated: the first entry whose table and
\* schema equal the names without regard to letter case, else defaultAccess
CaseInsensitiveDecision(config, table, schema) ==
  LET Decide(hits) ==
        IF hits # {}
        THEN config.tables[MinOf(hits)].accessLevel # "none"
        ELSE config.defaultAccess # "none"
  IN Decide({i \in 1..Len(config.tables) :
               /\ toLowerCase(config.tables[i].table) = toLowerCase(table)
               /\ toLowerCase(config.tables[i].schema) = toLowerCase(schema)})

\* C13: each implementation of canAccessTable (agent tools, web permission
\* library, validate endpoint) decides by the entry that matches table and
\* schema without regard to letter case, and by defaultAccess when none does.
C13_CaseInsensitiveResolution ==
  endpointCall.kind = "canAccessTable" =>
    /\ endpointCall.agent
         = CaseInsensitiveDecision(endpointCall.config, endpointCall.table,
                                   endpointCall.schema)
    /\ endpointCall.lib
         = CaseInsensitiveDecision(endpointCall.config, endpointCall.table,
                                   endpointCall.schema)
    /\ endpointCall.validate
         = CaseInsensitiveDecision(endpointCall.config, endpointCall.table,
                                   endpointCall.schema)

(***************************************************************************)
(* C14                                                                     *)
(***************************************************************************)
\* the entry the library resolves for the table of the last column question
AskedEntry ==
  getTableAccess(endpointCall.config, endpointCall.table, endpointCall.schema)

ColumnIsBlocked == SeqContains(AskedEntry.blockedColumns, endpointCall.column)

ColumnIsListed == SeqContains(AskedEntry.allowedColumns, endpointCall.column)

\* C14: canAccessColumn is false when the table's access level is none, false
\* when the column is in blockedColumns, membership in allowedColumns when
\* that list is non-empty, and true otherwise; a column in both lists is
\* denied and an empty allowedColumns restricts nothing.
C14_ColumnPolicy ==
  endpointCall.kind = "canAccessColumn" =>
    /\ AskedEntry.accessLevel = "none" => ~endpointCall.allowed
    /\ ColumnIsBlocked => ~endpointCall.allowed
    /\ (/\ AskedEntry.accessLevel # "none"
        /\ ~ColumnIsBlocked
        /\ Len(AskedEntry.allowedColumns) > 0)
       => (endpointCall.allowed <=> ColumnIsListed)
    /\ (/\ AskedEntry.accessLevel # "none"
        /\ ~ColumnIsBlocked
        /\ Len(AskedEntry.allowedColumns) = 0)
       => endpointCall.allowed

\* a column of an accessible table that is in both lists, denied
C14_Witness ==
  /\ endpointCall.kind = "canAccessColumn"
  /\ AskedEntry.accessLevel # "none"
  /\ ColumnIsBlocked
  /\ ColumnIsListed
  /\ ~endpointCall.allowed

(***************************************************************************)
(* C15                                                                     *)
(***************************************************************************)
\* no two entries of a list have the same (schema, table) key, the key
\* compared without regard to letter case
UniquelyKeyed(tables) ==
  \A i, j \in 1..Len(tables) :
    (/\ toLowerCase(tables[i].table) = toLowerCase(tables[j].table)
     /\ toLowerCase(tables[i].schema) = toLowerCase(tables[j].schema)) => i = j

\* C15: after any sequence of permission updates, the config of the
\* permissions route and the config of the settings page each hold at most
\* one entry per (schema, table) key, compared without regard to letter case.
C15_OneEntryPerKey ==
  /\ UniquelyKeyed(TablesOf(heap, permissionsConfig))
  /\ UniquelyKeyed(TablesOf(heap, settingsPermissions))

(***************************************************************************)
(* C16                                                                     *)
(***************************************************************************)
\* C16: a config object a reader holds, and its tables list, never change
\* after the reader took them: updates install new values.
C16_HeldConfigNeverChanges ==
  held # NoHold =>
    /\ heap[held.config] = held.sawConfig
    /\ heap[held.tables] = held.sawTables

(***************************************************************************)
(* C17                                                                     *)
(***************************************************************************)
\* C17: every tool call of a chat request is authorized against the config
\* the request's analyst was constructed with, so all tool calls of one
\* request use one and the same config, whatever other requests, deletions
\* and permission updates happen in between.
C17_OneConfigPerTurn ==
  \A t \in 1..Len(turns) :
    \A k \in 1..Len(turns[t].used) :
      /\ turns[t].used[k].permissions = analystObjects[turns[t].analyst].permissions
      /\ turns[t].used[k].permissions = turns[t].used[1].permissions

\* a request made two tool calls, and one of them ran after a later request
\* of the same conversation had replaced the conversation's analyst by one
\* with another config
C17_Witness ==
  \E t \in 1..Len(turns) :
    /\ Len(turns[t].used) = 2
    /\ turns[t].raced

(***************************************************************************)
(* C18                                                                     *)
(***************************************************************************)
\* C18: every tool call of a chat request that carries permissions is
\* authorized against exactly those permissions.
C18_RequestPermissionsUsed ==
  \A t \in 1..Len(turns) :
    turns[t].supplied # NotSet =>
      \A k \in 1..Len(turns[t].used) :
        turns[t].used[k].permissions = ParsedPermissions(turns[t].supplied)

(***************************************************************************)
(* C19                                                                     *)
(***************************************************************************)
\* C19: when a tool call of a turn was rejected with ACCESS_DENIED, the
\* turn's events hold a permission_denied event by the time done is sent.
C19_DenialYieldsPermissionDenied ==
  (stream.done > 0 /\ stream.accessDenied) => stream.permission_denied

(***************************************************************************)
(* C20                                                                     *)
(***************************************************************************)
\* the text holds a fenced block of the kind
BlockPresent(text, kind) == FencedBlock(text, kind).matched

\* the JSON of the block parses to an object that has the required fields
StructurallyValid(text, kind) ==
  LET HasFields(parsed) ==
        /\ parsed.t = "object"
        /\ kind = "insights" =>
             parsed.keyAnswer.t = "string" /\ parsed.metrics.t = "array"
        /\ kind = "permission_denied" =>
             parsed.tables.t = "array" /\ parsed.message.t = "string"
  IN HasFields(JSONParse(FencedBlock(text, kind).body))

\* the types of the typed events chatStream yielded for the last response
TypedOf(resp) == {resp.typed[i].type : i \in 1..Len(resp.typed)}

\* C20: after the text of a response, chatStream yields an sql event exactly
\* when the text holds an sql block, and an insights or permission_denied
\* event exactly when the text holds such a block whose JSON parses and has
\* the required fields.
C20_TypedEventIffValidBlock ==
  pc \in {"tools", "closed"} /\ response # NoResponse =>
    /\ "sql" \in TypedOf(response) <=> BlockPresent(response.text, "sql")
    /\ \A kind \in {"insights", "permission_denied"} :
         kind \in TypedOf(response) <=>
           /\ BlockPresent(response.text, kind)
           /\ StructurallyValid(response.text, kind)

(***************************************************************************)
(* C21                                                                     *)
(***************************************************************************)
\* the backend never answered a round trip of the last tool call
BackendNeverAnswered ==
  /\ lastTool.kind # "none"
  /\ SeqContains(lastTool.backend, "hang")

\* C21: a tool call whose backend round trip is never answered returns a
\* failure envelope with the timeout error, and the turn does not stay
\* blocked in the call.
C21_UnansweredRoundTripTimesOut ==
  BackendNeverAnswered =>
    /\ ToolFailedWith("Query timeout after ")
    /\ pc # "blocked"

(***************************************************************************)
(* C22                                                                     *)
(***************************************************************************)
\* the backend reported an error for a round trip of the last tool call
BackendReportedError ==
  /\ lastTool.kind # "none"
  /\ SeqContains(lastTool.backend, "error")

\* C22: a tool call during which the backend reported an error returns a
\* failure envelope that carries the error.
C22_BackendErrorIsToolError ==
  BackendReportedError => ToolFailedWith(QueryFailed)

(***************************************************************************)
(* C23                                                                     *)
(***************************************************************************)
\* the three rules, on the upper-cased and trimmed text
NoLeadingBlockedKeyword(n) ==
  \A k \in 1..Len(BLOCKED_KEYWORDS) : ~BlockedKeywordMatches(n, BLOCKED_KEYWORDS[k])
NoInnerSemicolon(n) == \A i \in 1..(Len(n) - 1) : Ch(n, i) # ";"
BeginsWithSelectOrWith(n) == startsWith(n, "SELECT") \/ startsWith(n, "WITH")

\* C23: validateSQL(sql).valid is true exactly when the upper-cased, trimmed
\* text has no statement-leading blocked keyword, no semicolon before its
\* final character, and begins with SELECT or WITH.
C23_ValidIffThreeRules ==
  endpointCall.kind = "validateSQL" =>
    LET Rules(n) == /\ NoLeadingBlockedKeyword(n)
                    /\ NoInnerSemicolon(n)
                    /\ BeginsWithSelectOrWith(n)
    IN endpointCall.result.valid <=> Rules(trim(toUpperCase(endpointCall.sql)))

\* a text that ends with a semicolon was accepted, with two warnings or more
C23_Witness ==
  /\ endpointCall.kind = "validateSQL"
  /\ endpointCall.result.valid
  /\ Len(endpointCall.result.warnings) >= 2
  /\ endsWith(endpointCall.sql, ";")

(***************************************************************************)
(* C24                                                                     *)
(***************************************************************************)
\* C24: a text with a semicolon before its final character is rejected with
\* the error on several statements, whatever follows the semicolon.
C24_InnerSemicolonIsMultipleStatements ==
  (/\ endpointCall.kind = "validateSQL"
   /\ ~NoInnerSemicolon(trim(toUpperCase(endpointCall.sql)))) =>
    /\ ~endpointCall.result.valid
    /\ endpointCall.result.error = "Multiple SQL statements are not allowed"

(***************************************************************************)
(* C25                                                                     *)
(***************************************************************************)
\* the first position of the text at which a FROM or JOIN match names the
\* table, 0 when none does
FirstAppearance(sql, tableName) ==
  LET First(at) == IF at = {} THEN 0 ELSE MinOf(at)
      Names(kw, q) ==
        /\ KeywordTableAt(sql, kw, q).matched
        /\ toLowerCase(AfterLastDot(KeywordTableAt(sql, kw, q).group)) = tableName
  IN First({q \in 1..Len(sql) : Names("from", q) \/ Names("join", q)})

\* the names are in the order in which they first appear in the text
InOrderOfFirstAppearance(sql, tables) ==
  \A i \in 1..Len(tables) : \A j \in (i + 1)..Len(tables) :
    FirstAppearance(sql, tables[i]) < FirstAppearance(sql, tables[j])

\* C25: each extractor returns the tables that follow FROM or JOIN in the
\* order in which they first appear in the text it scans.
C25_TablesInOrderOfFirstAppearance ==
  endpointCall.kind = "extractTablesFromSQL" =>
    /\ InOrderOfFirstAppearance(endpointCall.sql, endpointCall.agent)
    /\ InOrderOfFirstAppearance(normalizedSQLLib(endpointCall.sql), endpointCall.lib)

(***************************************************************************)
(* C26                                                                     *)
(***************************************************************************)
\* C26: sanitizeSQL of its own result is that result, and the result does
\* not end with a semicolon.
C26_SanitizeIdempotent ==
  endpointCall.kind = "sanitizeSQL" =>
    /\ endpointCall.again = endpointCall.result
    /\ ~endsWith(endpointCall.result, ";")

\* a text that ends with two semicolons, white space between them and after
\* them, was sanitized
C26_Witness ==
  /\ endpointCall.kind = "sanitizeSQL"
  /\ endsWith(endpointCall.sql, ";\n; ")
  /\ endpointCall.result = "SELECT 1"

\* C27: after any sequence of POST, PUT and DELETE requests the tables list
\* of the server's permission config has at most 1000 entries.
C27_TablesAtMostLimit ==
  Len(TablesOf(heap, permissionsConfig)) <= TablesLimit

\* the tool_call and tool_result events among the events of a turn
CallEvents(events) ==
  LET IsCallEvent(e) == e.type \in {"tool_call", "tool_result"}
  IN SelectSeq(events, IsCallEvent)

\* the ids of the tool_use blocks of the assistant messages, in order
RECURSIVE RequestedIds(_)
RequestedIds(messages) ==
  IF messages = <<>> THEN <<>>
  ELSE (IF Head(messages).role = "assistant" THEN Head(messages).ids ELSE <<>>)
         \o RequestedIds(Tail(messages))

\* the tool calls a turn was asked for so far: chat pushes the assistant
\* message of the response it is working on after the last call
Requested(turn) ==
  RequestedIds(turn.pushed)
    \o (IF turn.method = "chat" /\ turn.pc = "tool" THEN IdsOf(turn.blocks) ELSE <<>>)

IsPrefix(p, q) == Len(p) <= Len(q) /\ \A i \in 1..Len(p) : p[i] = q[i]

\* the events of the tool calls alternate, a tool_call and then the
\* tool_result of the same id, in the order the calls were requested
CallsOneAtATime(turn) ==
  LET ce == CallEvents(turn.events)
  IN /\ Len(ce) <= 2 * Len(Requested(turn))
     /\ \A i \in 1..Len(ce) :
          IF i % 2 = 1
          THEN /\ ce[i].type = "tool_call"
               /\ ce[i].id = Requested(turn)[(i + 1) \div 2]
          ELSE ce[i].type = "tool_result" /\ ce[i].id = ce[i - 1].id
     /\ turn.pc # "tool" => Len(ce) = 2 * Len(Requested(turn))

\* the messages a turn appended: after each assistant message come the
\* tool-result messages of its ids, one each and in order, and all of them
\* before the turn calls the model again or ends
ResultsFollowRequests(turn) ==
  LET log == turn.pushed
      NextAssistant(j) ==
        MinOf({k \in (j + 1)..(Len(log) + 1) :
                 k = Len(log) + 1 \/ log[k].role = "assistant"})
      ResultIds(j) == [k \in 1..(NextAssistant(j) - j - 1) |-> log[j + k].ids[1]]
  IN /\ \A i \in 1..Len(log) :
          log[i].type = "tool_result" =>
            \E j \in 1..(i - 1) : log[j].role = "assistant" /\ NextAssistant(j) > i
     /\ \A j \in 1..Len(log) :
          log[j].role = "assistant" =>
            /\ \A k \in (j + 1)..(NextAssistant(j) - 1) : log[k].type = "tool_result"
            /\ IsPrefix(ResultIds(j), log[j].ids)
            /\ (NextAssistant(j) <= Len(log) \/ turn.pc # "tool")
                 => ResultIds(j) = log[j].ids

\* the messages of a turn in the history of its analyst
OwnMessages(t) ==
  LET Own(m) == m.turn = t
  IN SelectSeq(analystObjects[turns[t].analyst].conversationHistory, Own)

\* C28: the tool calls of a response run one at a time in the order
\* requested, each tool_call event followed by its tool_result event before
\* the next tool_call, and each call's tool-result message is appended once,
\* after the assistant message that requested it and before the next model
\* call, for a successful call and for an error envelope alike.
C28_ToolCallsSequentialAndRecorded ==
  \A t \in Chats :
    /\ CallsOneAtATime(turns[t])
    /\ ResultsFollowRequests(turns[t])
    /\ (\A r \in 1..Len(turns) : turns[r].kind # "DELETE")
         => OwnMessages(t) = turns[t].pushed

\* a turn of chatStream that ran two tool calls of one response, one that
\* succeeded and one that returned an error envelope, called the model again
\* and ended
C28_Witness ==
  \E t \in Chats :
    /\ turns[t].method = "chatStream"
    /\ turns[t].pc = "closed"
    /\ turns[t].iterations = 2
    /\ \E j \in 1..Len(turns[t].pushed) :
         /\ turns[t].pushed[j].role = "assistant"
         /\ Len(turns[t].pushed[j].ids) = 2
    /\ \E i, j \in 1..Len(turns[t].pushed) :
         /\ turns[t].pushed[i].type = "tool_result"
         /\ turns[t].pushed[j].type = "tool_result"
         /\ turns[t].pushed[i].success
         /\ ~turns[t].pushed[j].success

\* each tool-result message of a history comes after the assistant message
\* that holds its tool_use, with only tool-result messages of that assistant
\* message between the two
WellNested(h) ==
  \A i \in 1..Len(h) :
    h[i].type = "tool_result" =>
      \E j \in 1..(i - 1) :
        /\ h[j].role = "assistant"
        /\ \E k \in 1..Len(h[j].ids) : h[j].ids[k] = h[i].ids[1]
        /\ \A m \in (j + 1)..(i - 1) :
             /\ h[m].type = "tool_result"
             /\ \E k \in 1..Len(h[j].ids) : h[j].ids[k] = h[m].ids[1]

\* C29: in every state, while no DELETE request was made, the history of
\* each analyst is well nested, also when two chat requests of one
\* conversation share the analyst.
C29_HistoryWellNested ==
  (\A r \in 1..Len(turns) : turns[r].kind # "DELETE")
    => \A ref \in 1..Len(analystObjects) :
         WellNested(analystObjects[ref].conversationHistory)

MaxOf(S) == CHOOSE k \in S : \A j \in S : k >= j

\* the request r of a conversation starts a new history: a DELETE, the first
\* chat request, or a chat request whose permissions hash differs from the
\* hash of the chat request before it
StartsAnew(requests, r) ==
  \/ requests[r].kind = "DELETE"
  \/ LET before == {q \in 1..(r - 1) :
                      /\ requests[q].kind = "chat"
                      /\ requests[q].conversationId = requests[r].conversationId}
     IN \/ before = {}
        \/ requests[MaxOf(before)].hash # requests[r].hash

\* the chat requests of the conversation before request t, from the last
\* request, t included, that started a new history
TurnsSince(requests, t) ==
  LET same == {r \in 1..t : /\ requests[r].kind \in {"chat", "DELETE"}
                            /\ requests[r].conversationId = requests[t].conversationId}
      last == MaxOf({r \in same : StartsAnew(requests, r)})
  IN {r \in same : r >= last /\ r < t /\ requests[r].kind = "chat"}

\* the history before the user message of the turn
SeenBefore(turn) == SubSeq(turn.seen, 1, Len(turn.seen) - 1)

\* C30: when a chat request starts its turn, the history its first model
\* call is given holds, before the new user message, exactly the messages
\* appended so far by the conversation's chat requests since the last DELETE
\* or change of the permissions hash, each request's messages in their order;
\* it is empty right after a DELETE or a change of the hash.
C30_HistoryIsTurnsSinceReset ==
  [][\A t \in 1..Len(turns') :
       (/\ Len(turns') = Len(turns) + 1
        /\ t = Len(turns')
        /\ turns'[t].kind = "chat")
         => LET before == SeenBefore(turns'[t])
                since == TurnsSince(turns', t)
            IN /\ \A i \in 1..Len(before) : before[i].turn \in since
               /\ \A r \in since :
                    LET Of(m) == m.turn = r
                    IN SelectSeq(before, Of) = turns[r].pushed]_vars

\* a chat request after a DELETE that followed a turn with a tool call: its
\* model call is given the new user message alone
C30_Witness ==
  /\ Len(turns) = 3
  /\ turns[1].kind = "chat" /\ Len(turns[1].pushed) >= 3
  /\ turns[2].kind = "DELETE"
  /\ turns[3].kind = "chat" /\ turns[3].seen = <<UserMessage(3)>>

====
